---- MODULE Spec2Model ----
(***************************************************************************)
(* Task tracker (Telegram bot + REST backend over SQLite).                 *)
(*                                                                         *)
(* The store is the pair of tables task_groups / tasks of db/database.py   *)
(* together with the AUTOINCREMENT counter of tasks.id.  Every repository  *)
(* method of repositories/tasks_repository.py is an operator that maps the *)
(* current store and the call's arguments to the store after the call and  *)
(* the call's result (returned value or raised exception); an action       *)
(* applies one call and records it in `last`.                              *)
(***************************************************************************)
EXTENDS Integers, Sequences, FiniteSets, TLC

VARIABLES
    task_groups,   \* rows of table task_groups (a set of records)
    tasks,         \* rows of table tasks (a set of records)
    seq,           \* sqlite_sequence of tasks: the largest id ever committed
    allocated,     \* every group_task_id a committed task_groups row ever had
    last,          \* the last call: its name, arguments and result
    e2e,           \* position of the end-to-end scenario of SpecE2E
    users,         \* rows of table users (a set of records)
    groups,        \* rows of table groups (a set of records)
    user_groups,   \* rows of table user_groups (a set of records)
    conn,          \* the open connection of each concurrent create_task_group
    wlock,         \* the connection holding SQLite's write lock, or None
    config_rows,   \* rows of table config: the text stored under each key
    bot            \* the bot process: its module globals and FSM storage

vars == <<task_groups, tasks, seq, allocated, last, e2e, users, groups,
          user_groups, conn, wlock, config_rows, bot>>

(* The tables of the task store, of the user store, and the connections.   *)
task_store == <<task_groups, tasks, seq, allocated>>
user_store == <<users, groups, user_groups>>
conns      == <<conn, wlock>>
bot_side   == <<config_rows, bot>>

----------------------------------------------------------------------------
(* Bounds of the model. *)

MaxGroups == 2     \* task_groups rows ever created
MaxTaskId == 2     \* task ids ever allocated

(* Inputs. *)

Handles      == {"@a", "@b"}
Bosses       == {"@boss"}
Texts        == {"Fix bug"}
Deadlines    == {"31.12.2099"}
ChatIds      == {""}
Stamps       == {"01.11.2026 10:00:00"}     \* values of datetime.now().strftime(...)
StatusInputs == {"active", "completed", "done"}

ExecutorLists == {<<>>, <<"@a">>, <<"@a", "@b">>, <<"@a", "@a">>}

(* The ids callers pass: every id handed out so far, and one that never    *)
(* existed.                                                                *)
TaskIds == 1..(seq + 1)

GroupTaskIds == 1..(Cardinality(allocated) + 1)

----------------------------------------------------------------------------
(* Helpers. *)

None == "<None>"

ValidStatuses == {"active", "completed"}

MaxOf(S) == CHOOSE m \in S : \A x \in S : x <= m

Range(s) == {s[i] : i \in DOMAIN s}

GroupIds(G) == {g.group_task_id : g \in G}

TaskIdsOf(T) == {t.id : t \in T}

RECURSIVE SortById(_)
SortById(T) ==
    IF T = {} THEN <<>>
    ELSE LET t == CHOOSE x \in T : \A y \in T : x.id <= y.id
         IN <<t>> \o SortById(T \ {t})

(* Task(...): the pydantic model; construction fails on a status outside   *)
(* {active, completed}.                                                    *)
TaskValid(t) == t.status \in ValidStatuses

(* _row_to_task applied to a list of rows: a ValidationError as soon as    *)
(* one row does not validate.                                              *)
RowsValid(T) == \A t \in T : TaskValid(t)

----------------------------------------------------------------------------
(* Repository calls.  Each returns                                         *)
(*   [groups, tasks, seq : the store after the call,                       *)
(*    exc                : "none" or the exception raised,                 *)
(*    ret_tasks          : the returned list of Task,                      *)
(*    ret_group          : the returned TaskGroup (a list of 0 or 1),      *)
(*    ret_int            : the returned integer (-1: none)].               *)

Result(G, T, s, exc, rt, rg, ri) ==
    [groups |-> G, tasks |-> T, seq |-> s, exc |-> exc,
     ret_tasks |-> rt, ret_group |-> rg, ret_int |-> ri]

Raise(exc) == Result(task_groups, tasks, seq, exc, <<>>, <<>>, -1)

(* Variant: the maximum is read from tasks instead of task_groups.         *)
get_next_from_tasks(G) ==
    LET max_id == IF tasks = {} THEN 0
                  ELSE MaxOf({t.group_task_id : t \in tasks})
    IN max_id + 1

get_next_group_task_id(G) ==
    LET max_id == IF G = {} THEN 0 ELSE MaxOf(GroupIds(G))
    IN max_id + 1

(* Variant: the loop stops one executor early.                             *)
NewTaskRowsSkipLast(s, gid, assigned_to, assigned_by, now) ==
    [i \in 1..(Len(assigned_to) - 1) |->
        [id |-> s + i, group_task_id |-> gid, assigned_to |-> assigned_to[i],
         assigned_by |-> assigned_by, status |-> "active",
         created_at |-> now, completed_at |-> ""]]

(* The rows INSERTed for a list of executors; ids continue the sequence.   *)
NewTaskRows(s, gid, assigned_to, assigned_by, now) ==
    [i \in 1..Len(assigned_to) |->
        [id |-> s + i, group_task_id |-> gid, assigned_to |-> assigned_to[i],
         assigned_by |-> assigned_by, status |-> "active",
         created_at |-> now, completed_at |-> ""]]

(* The Task objects appended to the returned list.                         *)
NewTaskObjects(s, gid, assigned_to, assigned_by, now) ==
    [i \in 1..Len(assigned_to) |->
        [id |-> s + i, group_task_id |-> gid, assigned_to |-> assigned_to[i],
         assigned_by |-> assigned_by, status |-> "active",
         created_at |-> now, completed_at |-> ""]]

(* PRAGMA foreign_keys = ON: an INSERT INTO tasks needs its task_groups row. *)
ForeignKeyOk(G, rows) == \A t \in rows : t.group_task_id \in GroupIds(G)

create_task_group(task_text, deadline, group_id, assigned_to, assigned_by, now) ==
    LET group_task_id == get_next_group_task_id(task_groups)
        row == [group_task_id |-> group_task_id, task_text |-> task_text,
                deadline |-> deadline, group_id |-> group_id, created_at |-> now]
        rows == NewTaskRows(seq, group_task_id, assigned_to, assigned_by, now)
    IN IF group_task_id \in GroupIds(task_groups)
       THEN Raise("IntegrityError")   \* PRIMARY KEY of task_groups
       ELSE IF ~ForeignKeyOk(task_groups \cup {row}, Range(rows))
       THEN Raise("IntegrityError")
       ELSE Result(task_groups \cup {row}, tasks \cup Range(rows),
                   seq + Len(assigned_to), "none",
                   NewTaskObjects(seq, group_task_id, assigned_to, assigned_by, now),
                   <<>>, -1)

(* Variant: the existence check is skipped.                                *)
GroupExistsUnchecked(group_task_id) == TRUE

GroupExists(group_task_id) == group_task_id \in GroupIds(task_groups)

add_executors_to_group(group_task_id, assigned_to, assigned_by, now) ==
    LET rows == NewTaskRows(seq, group_task_id, assigned_to, assigned_by, now)
    IN IF ~GroupExists(group_task_id)
       THEN Raise("ValueError")
       ELSE IF ~ForeignKeyOk(task_groups, Range(rows))
       THEN Raise("IntegrityError")
       ELSE Result(task_groups, tasks \cup Range(rows),
                   seq + Len(assigned_to), "none",
                   NewTaskObjects(seq, group_task_id, assigned_to, assigned_by, now),
                   <<>>, -1)

get_all_tasks ==
    IF RowsValid(tasks)
    THEN Result(task_groups, tasks, seq, "none", SortById(tasks), <<>>, -1)
    ELSE Raise("ValidationError")

get_task_by_id(T, task_id) ==
    LET rows == {t \in T : t.id = task_id}
    IN IF rows = {} THEN [exc |-> "none", ret_tasks |-> <<>>]
       ELSE IF RowsValid(rows) THEN [exc |-> "none", ret_tasks |-> SortById(rows)]
       ELSE [exc |-> "ValidationError", ret_tasks |-> <<>>]


NoUpdate == [task_text |-> None, deadline |-> None, group_id |-> None]

Supplied(upd) ==
    {f \in {"task_text", "deadline", "group_id"} : upd[f] # None}

(* The partial updates tried: no field, one field, or all three.           *)
GroupUpdates ==
    {upd \in [task_text : Texts \cup {None}, deadline : Deadlines \cup {None},
              group_id : ChatIds \cup {None}] :
        Cardinality(Supplied(upd)) \in {0, 1, 3}}

(* Variant: every column is written, the unsupplied ones as "".            *)
PatchGroupAll(g, upd) ==
    [g EXCEPT !.task_text = IF upd.task_text # None THEN upd.task_text ELSE "",
              !.deadline  = IF upd.deadline # None THEN upd.deadline ELSE "",
              !.group_id  = IF upd.group_id # None THEN upd.group_id ELSE ""]

(* The row after "UPDATE task_groups SET <the supplied fields>".           *)
PatchGroup(g, upd) ==
    [g EXCEPT !.task_text = IF upd.task_text # None THEN upd.task_text ELSE @,
              !.deadline  = IF upd.deadline # None THEN upd.deadline ELSE @,
              !.group_id  = IF upd.group_id # None THEN upd.group_id ELSE @]

(* Variant: without a supplied field the group is not looked up.           *)
update_group_unread(group_task_id, task_group_update) ==
    LET fields  == task_group_update # NoUpdate
        matched == {g \in task_groups : g.group_task_id = group_task_id}
        G2 == IF fields
              THEN (task_groups \ matched) \cup {PatchGroup(g, task_group_update) : g \in matched}
              ELSE task_groups
    IN IF fields /\ matched = {} THEN Raise("ValueError")
       ELSE Result(G2, tasks, seq, "none", <<>>, <<>>, -1)

update_group(group_task_id, task_group_update) ==
    LET fields  == task_group_update # NoUpdate
        matched == {g \in task_groups : g.group_task_id = group_task_id}
        G2 == IF fields
              THEN (task_groups \ matched) \cup {PatchGroup(g, task_group_update) : g \in matched}
              ELSE task_groups
        row == {g \in G2 : g.group_task_id = group_task_id}
    IN IF fields /\ matched = {} THEN Raise("ValueError")       \* rowcount == 0
       ELSE IF row = {} THEN Raise("ValueError")                \* row is None
       ELSE Result(G2, tasks, seq, "none", <<>>, <<CHOOSE g \in row : TRUE>>, -1)

(* Variant: reopening does not clear completed_at.                         *)
SetStatusKeepStamp(t, new_status, now) ==
    [t EXCEPT !.status = new_status,
              !.completed_at = IF new_status = "completed" THEN now ELSE @]

(* The row after "UPDATE tasks SET status = ?, completed_at = ?".          *)
SetStatus(t, new_status, now) ==
    [t EXCEPT !.status = new_status,
              !.completed_at = IF new_status = "completed" THEN now ELSE ""]

update_task_status(task_id, new_status, now) ==
    LET matched == {t \in tasks : t.id = task_id}
        T2 == (tasks \ matched) \cup {SetStatus(t, new_status, now) : t \in matched}
        updated_task == get_task_by_id(T2, task_id)     \* after conn.commit()
    IN IF matched = {} THEN Raise("ValueError")                 \* rowcount == 0
       ELSE IF updated_task.exc # "none"
            THEN Result(task_groups, T2, seq, updated_task.exc, <<>>, <<>>, -1)
       ELSE IF updated_task.ret_tasks = <<>>
            THEN Result(task_groups, T2, seq, "ValueError", <<>>, <<>>, -1)
       ELSE Result(task_groups, T2, seq, "none", updated_task.ret_tasks, <<>>, -1)

(* Variant: the group row is deleted together with the task row.          *)
DeleteRowsAndGroup(row) ==
    [tasks |-> tasks \ {row},
     groups |-> {g \in task_groups : g.group_task_id # row.group_task_id}]

(* Variant: a group left without task rows is cleaned up.                  *)
DeleteRowsCleanup(row) ==
    [tasks |-> tasks \ {row},
     groups |-> {g \in task_groups :
                    \/ g.group_task_id # row.group_task_id
                    \/ \E t \in tasks \ {row} : t.group_task_id = g.group_task_id}]

(* Variant: every task row of the group is deleted.                        *)
DeleteRowsOfGroup(row) ==
    [tasks |-> {t \in tasks : t.group_task_id # row.group_task_id},
     groups |-> task_groups]

(* What delete_task does once the row is found: the rows kept in tasks     *)
(* and the rows kept in task_groups.                                       *)
DeleteRows(row) == [tasks |-> tasks \ {row}, groups |-> task_groups]

(* Variant: the count has no WHERE clause.                                 *)
CountInGroupAll(T, group_task_id) == Cardinality(T)

(* Variant: the count is taken from the rows as they were before the       *)
(* DELETE.                                                                 *)
CountInGroupStale(T, group_task_id) ==
    Cardinality({t \in tasks : t.group_task_id = group_task_id})

(* The SELECT that counts the rows of tasks with the given group_task_id.   *)
CountInGroup(T, group_task_id) ==
    Cardinality({t \in T : t.group_task_id = group_task_id})

delete_task(task_id) ==
    LET matched == {t \in tasks : t.id = task_id}
    IN IF matched = {} THEN Raise("ValueError")                 \* row is None
       ELSE LET row == CHOOSE t \in matched : TRUE
                kept == DeleteRows(row)
                remaining == CountInGroup(kept.tasks, row.group_task_id)
            IN Result(kept.groups, kept.tasks, seq, "none", <<>>, <<>>, remaining)

----------------------------------------------------------------------------
(* REST layer: POST /api/tasks.  The payload is the parsed member of       *)
(* Union[TaskCreate, TaskAddExecutors].                                    *)

TaskCreatePayloads ==
    [kind : {"TaskCreate"}, task_text : Texts, deadline : Deadlines,
     group_id : ChatIds, assigned_to : ExecutorLists, assigned_by : Bosses,
     group_task_id : {0}]

TaskAddExecutorsPayloads ==
    [kind : {"TaskAddExecutors"}, task_text : {None}, deadline : {None},
     group_id : {None}, assigned_to : ExecutorLists, assigned_by : Bosses,
     group_task_id : GroupTaskIds]

(* Variant: no handler for ValueError.                                     *)
HttpOfUnhandled(exc) == IF exc = "none" THEN 200 ELSE 500

(* The status code of a handler: 200, the 404 of its "except ValueError",  *)
(* or the 500 of an exception it re-raises.                                *)
HttpOf(exc) ==
    IF exc = "none" THEN 200
    ELSE IF exc \in {"ValueError", "ValidationError"} THEN 404
    ELSE 500

(* Returns the repository result with ret_int the group_task_id of the     *)
(* response (-1: None or no response body).                                *)
create_or_add_tasks(payload, now) ==
    IF payload.kind = "TaskCreate"
    THEN LET r == create_task_group(payload.task_text, payload.deadline, payload.group_id,
                                    payload.assigned_to, payload.assigned_by, now)
         IN IF r.exc = "none" /\ r.ret_tasks # <<>>
            THEN [r EXCEPT !.ret_int = r.ret_tasks[1].group_task_id]
            ELSE r
    ELSE LET r == add_executors_to_group(payload.group_task_id, payload.assigned_to,
                                         payload.assigned_by, now)
         IN IF r.exc = "none" THEN [r EXCEPT !.ret_int = payload.group_task_id] ELSE r

(* The bodies PUT /api/tasks/{id} accepts, after validation: a            *)
(* TaskStatusUpdate (its validator admits only the two statuses) or a      *)
(* GroupOperationRequest, whose group_operation is any bool.               *)
TaskStatusUpdatePayloads ==
    [kind : {"TaskStatusUpdate"}, status : ValidStatuses,
     group_operation : {FALSE}, upd : {NoUpdate}]

GroupOperationRequests ==
    [kind : {"GroupOperationRequest"}, status : {None},
     group_operation : BOOLEAN, upd : GroupUpdates]

(* PUT /api/tasks/{task_id}.  ret_int is the group_task_id of the response *)
(* of a group operation.                                                   *)
update_task(task_id, payload, now) ==
    IF payload.kind = "GroupOperationRequest" /\ payload.group_operation
    THEN LET task == get_task_by_id(tasks, task_id)
         IN IF task.exc # "none" THEN Raise(task.exc)
            ELSE IF task.ret_tasks = <<>> THEN Raise("ValueError")
            ELSE LET r == update_group(task.ret_tasks[1].group_task_id, payload.upd)
                 IN IF r.exc # "none" THEN r
                    ELSE [r EXCEPT !.ret_group = <<>>,
                                   !.ret_int = task.ret_tasks[1].group_task_id]
    ELSE IF payload.kind = "GroupOperationRequest"
    THEN Raise("AttributeError")        \* payload.status does not exist
    ELSE update_task_status(task_id, payload.status, now)

(* DELETE /api/tasks/{task_id}.                                            *)
web_delete_task(task_id) == delete_task(task_id)

----------------------------------------------------------------------------
(* The state machine: one action per call.                                 *)

NoArgs ==
    [task_id |-> 0, group_task_id |-> 0, status |-> None, n |-> 0, upd |-> NoUpdate,
     kind |-> None]

Call(op, args, r, http) ==
    [op |-> op, task_id |-> args.task_id, group_task_id |-> args.group_task_id,
     status |-> args.status, n |-> args.n, upd |-> args.upd, kind |-> args.kind,
     exc |-> r.exc, http |-> http, ret_tasks |-> r.ret_tasks,
     ret_group |-> r.ret_group, ret_int |-> r.ret_int]

(* Commit the store of result r and record the call.                       *)
Store(op, args, r, http) ==
    /\ task_groups' = r.groups
    /\ tasks' = r.tasks
    /\ seq' = r.seq
    /\ allocated' = allocated \cup GroupIds(r.groups)
    /\ last' = Call(op, args, r, http)
    /\ UNCHANGED <<user_store, conns, bot_side>>

(* The model stops short of a call that would take the tables past the     *)
(* bounds.                                                                 *)
Bounded(r) == Cardinality(r.groups) <= MaxGroups /\ r.seq <= MaxTaskId

Apply(op, args, r, http) ==
    Bounded(r) /\ Store(op, args, r, http) /\ UNCHANGED e2e

(* The concurrent callers of create_task_group, and a connection that has  *)
(* not started a call.                                                     *)
Procs == {"p1", "p2"}

Idle == [pc |-> "idle", group_task_id |-> 0, assigned_to |-> <<>>, inserted |-> 0,
         exc |-> "none"]

(* The rows init_db seeds table config with.                               *)
ConfigToggles == {"task_created", "task_completed", "task_deleted", "overdue_reminder"}

SeededConfig ==
    [key \in ConfigToggles \cup {"admins", "group_chat_ids"} |->
        IF key \in ConfigToggles THEN "true" ELSE "[]"]

(* The bot before any of its handlers has run.                             *)
NoBot == [pc |-> "off"]

(* The database after init_db.                                             *)
InitTables ==
    /\ task_groups = {}
    /\ tasks = {}
    /\ seq = 0
    /\ allocated = {}
    /\ last = Call("init", NoArgs, Raise("none"), 0)
    /\ e2e = [pc |-> "start", completed |-> 0, active |-> 0]
    /\ users = {}
    /\ groups = {}
    /\ user_groups = {}
    /\ conn = [p \in Procs |-> Idle]
    /\ wlock = None
    /\ config_rows = SeededConfig

Init == InitTables /\ bot = NoBot

CreateTaskGroup ==
    \E task_text \in Texts, deadline \in Deadlines, group_id \in ChatIds,
       assigned_to \in ExecutorLists, assigned_by \in Bosses, now \in Stamps :
        /\ Apply("create_task_group", [NoArgs EXCEPT !.n = Len(assigned_to)],
                 create_task_group(task_text, deadline, group_id, assigned_to,
                                   assigned_by, now), 0)

AddExecutorsToGroup ==
    \E group_task_id \in GroupTaskIds, assigned_to \in ExecutorLists,
       assigned_by \in Bosses, now \in Stamps :
        /\ Apply("add_executors_to_group",
                 [NoArgs EXCEPT !.group_task_id = group_task_id,
                                !.n = Len(assigned_to)],
                 add_executors_to_group(group_task_id, assigned_to, assigned_by,
                                        now), 0)

GetAllTasks ==
    Apply("get_all_tasks", NoArgs, get_all_tasks, 0)

UpdateGroup ==
    \E group_task_id \in GroupTaskIds, upd \in GroupUpdates :
        Apply("update_group",
              [NoArgs EXCEPT !.group_task_id = group_task_id, !.upd = upd],
              update_group(group_task_id, upd), 0)

UpdateTaskStatus ==
    \E task_id \in TaskIds, new_status \in StatusInputs, now \in Stamps :
        Apply("update_task_status",
              [NoArgs EXCEPT !.task_id = task_id, !.status = new_status],
              update_task_status(task_id, new_status, now), 0)

DeleteTask ==
    \E task_id \in TaskIds :
        Apply("delete_task", [NoArgs EXCEPT !.task_id = task_id],
              delete_task(task_id), 0)

PostTasks ==
    \E payload \in TaskCreatePayloads \cup TaskAddExecutorsPayloads,
       now \in Stamps :
        /\ LET r == create_or_add_tasks(payload, now)
           IN Apply("POST /api/tasks",
                    [NoArgs EXCEPT !.group_task_id = payload.group_task_id,
                                   !.n = Len(payload.assigned_to),
                                   !.status = payload.kind],
                    r, HttpOf(r.exc))

Next ==
    \/ CreateTaskGroup
    \/ AddExecutorsToGroup
    \/ GetAllTasks
    \/ UpdateGroup
    \/ UpdateTaskStatus
    \/ DeleteTask
    \/ PostTasks

Spec == Init /\ [][Next]_vars

----------------------------------------------------------------------------
(* The REST surface of the task store: the calls of Spec together with     *)
(* PUT and DELETE /api/tasks/{id}.                                         *)

PayloadTag(payload) ==
    IF payload.kind = "TaskStatusUpdate" THEN "TaskStatusUpdate"
    ELSE IF payload.group_operation THEN "GroupOperationRequest(true)"
    ELSE "GroupOperationRequest(false)"

PutTask ==
    \E task_id \in TaskIds,
       payload \in TaskStatusUpdatePayloads \cup GroupOperationRequests,
       now \in Stamps :
        LET r == update_task(task_id, payload, now)
        IN Apply("PUT /api/tasks/{id}",
                 [NoArgs EXCEPT !.task_id = task_id, !.status = payload.status,
                                !.upd = payload.upd,
                                !.kind = PayloadTag(payload)],
                 r, HttpOf(r.exc))

DeleteTaskById ==
    \E task_id \in TaskIds :
        LET r == web_delete_task(task_id)
        IN Apply("DELETE /api/tasks/{id}", [NoArgs EXCEPT !.task_id = task_id],
                 r, HttpOf(r.exc))

NextApi ==
    \/ CreateTaskGroup
    \/ AddExecutorsToGroup
    \/ UpdateTaskStatus
    \/ DeleteTask
    \/ PostTasks
    \/ PutTask
    \/ DeleteTaskById

SpecApi == Init /\ [][NextApi]_vars

----------------------------------------------------------------------------
(* update_group with values that differ from the ones a group is created   *)
(* with.                                                                   *)

RichUpdates ==
    [task_text : {"Write docs", None}, deadline : {"01.01.2020", None},
     group_id : {"-100", None}]

UpdateGroupFields ==
    \E group_task_id \in GroupTaskIds, upd \in RichUpdates :
        Apply("update_group",
              [NoArgs EXCEPT !.group_task_id = group_task_id, !.upd = upd],
              update_group(group_task_id, upd), 0)

NextGroup ==
    \/ CreateTaskGroup
    \/ UpdateGroupFields

SpecGroup == Init /\ [][NextGroup]_vars

----------------------------------------------------------------------------
(* End-to-end scenario of the testable properties, on the empty store:     *)
(* create a group with two executors, complete one task, list, delete the  *)
(* other.                                                                  *)

E2ETexts     == {"Fix bug", "Write docs", "Deploy"}
E2EDeadlines == {"31.12.2099", "01.01.2020", "soon"}
E2EChatIds   == {"", "-100"}
E2EExecutors == [1..2 -> Handles]

E2ECreate ==
    /\ e2e.pc = "start"
    /\ \E task_text \in E2ETexts, deadline \in E2EDeadlines, group_id \in E2EChatIds,
          assigned_to \in E2EExecutors, assigned_by \in Bosses, now \in Stamps :
           Store("create_task_group", [NoArgs EXCEPT !.n = Len(assigned_to)],
                 create_task_group(task_text, deadline, group_id, assigned_to,
                                   assigned_by, now), 0)
    /\ e2e' = [e2e EXCEPT !.pc = "created"]

E2EComplete ==
    /\ e2e.pc = "created"
    /\ \E i \in DOMAIN last.ret_tasks, now \in Stamps :
          LET task_id == last.ret_tasks[i].id
              others == {last.ret_tasks[j].id : j \in DOMAIN last.ret_tasks \ {i}}
          IN /\ Store("update_task_status",
                      [NoArgs EXCEPT !.task_id = task_id, !.status = "completed"],
                      update_task_status(task_id, "completed", now), 0)
             /\ e2e' = [pc |-> "updated", completed |-> task_id,
                        active |-> CHOOSE o \in others : TRUE]

E2EList ==
    /\ e2e.pc = "updated"
    /\ Store("get_all_tasks", NoArgs, get_all_tasks, 0)
    /\ e2e' = [e2e EXCEPT !.pc = "listed"]

E2EDelete ==
    /\ e2e.pc = "listed"
    /\ Store("delete_task", [NoArgs EXCEPT !.task_id = e2e.active],
             delete_task(e2e.active), 0)
    /\ e2e' = [e2e EXCEPT !.pc = "deleted"]

NextE2E ==
    \/ E2ECreate
    \/ E2EComplete
    \/ E2EList
    \/ E2EDelete

SpecE2E == Init /\ [][NextE2E]_vars

----------------------------------------------------------------------------
(* Two concurrent create_task_group calls, each on its own connection,     *)
(* statement by statement.  The tables hold the committed rows; the rows   *)
(* of an open transaction are those of conn[p].  A connection holds        *)
(* SQLite's write lock from its first INSERT to its commit or rollback.    *)

RaceExecutorLists == {<<>>, <<"@a">>, <<"@a", "@b">>}

(* The arguments of the two callers differ in task_text and assigned_by.   *)
RaceText(p) == IF p = "p1" THEN "Fix bug" ELSE "Write docs"
RaceBoss(p) == IF p = "p1" THEN "@boss" ELSE "@chief"
RaceNow     == CHOOSE now \in Stamps : TRUE

(* Variant: the PRIMARY KEY of task_groups is not enforced.                *)
DuplicateKeyIgnored(G, group_task_id) == FALSE

(* group_task_id INTEGER PRIMARY KEY: an INSERT of a key that a committed  *)
(* row has fails.                                                          *)
DuplicateKey(G, group_task_id) == group_task_id \in GroupIds(G)

(* Variant: every INSERT is committed on its own.                          *)
InsertVisibleAtOnce(rows) == rows

(* The rows of an INSERT that other connections see before the commit:     *)
(* none, the INSERTs run in the transaction sqlite3 opened for the first.  *)
InsertVisible(rows) == {}

PendingGroup(p) ==
    [group_task_id |-> conn[p].group_task_id, task_text |-> RaceText(p),
     deadline |-> "31.12.2099", group_id |-> "", created_at |-> RaceNow]

(* The first k task rows of the call of p.                                 *)
PendingTasks(p, k) ==
    Range(NewTaskRows(seq, conn[p].group_task_id, SubSeq(conn[p].assigned_to, 1, k),
                      RaceBoss(p), RaceNow))

get_tasks_by_group(group_task_id) ==
    LET rows == {t \in tasks : t.group_task_id = group_task_id}
    IN IF RowsValid(rows)
       THEN Result(task_groups, tasks, seq, "none", SortById(rows), <<>>, -1)
       ELSE Raise("ValidationError")

RaceKeep == UNCHANGED <<e2e, user_store, bot_side>>

(* get_next_group_task_id: SELECT MAX(group_task_id), outside a transaction. *)
RaceSelectMax ==
    \E p \in Procs, assigned_to \in RaceExecutorLists :
        /\ conn[p].pc = "idle"
        /\ conn' = [conn EXCEPT ![p] = [Idle EXCEPT
                        !.pc = "selected",
                        !.group_task_id = get_next_group_task_id(task_groups),
                        !.assigned_to = assigned_to]]
        /\ UNCHANGED <<task_store, last, wlock>>
        /\ RaceKeep

(* INSERT INTO task_groups: takes the write lock, or fails on the key and  *)
(* is rolled back.                                                         *)
RaceInsertGroup ==
    \E p \in Procs :
        /\ conn[p].pc = "selected"
        /\ wlock = None
        /\ IF DuplicateKey(task_groups, conn[p].group_task_id)
           THEN /\ conn' = [conn EXCEPT ![p].pc = "done", ![p].exc = "IntegrityError"]
                /\ UNCHANGED <<task_store, wlock>>
           ELSE /\ conn' = [conn EXCEPT ![p].pc = "writing"]
                /\ wlock' = p
                /\ task_groups' = task_groups \cup InsertVisible({PendingGroup(p)})
                /\ UNCHANGED <<tasks, seq, allocated>>
        /\ UNCHANGED last
        /\ RaceKeep

(* INSERT INTO task_groups while the other connection holds the write      *)
(* lock, once the busy timeout has run out: "database is locked".          *)
RaceLocked ==
    \E p \in Procs :
        /\ conn[p].pc = "selected"
        /\ wlock \notin {None, p}
        /\ conn' = [conn EXCEPT ![p].pc = "done", ![p].exc = "OperationalError"]
        /\ UNCHANGED <<task_store, last, wlock>>
        /\ RaceKeep

(* INSERT INTO tasks for the next executor.                                *)
RaceInsertTask ==
    \E p \in Procs :
        /\ conn[p].pc = "writing"
        /\ conn[p].inserted < Len(conn[p].assigned_to)
        /\ conn' = [conn EXCEPT ![p].inserted = @ + 1]
        /\ tasks' = tasks \cup InsertVisible(PendingTasks(p, conn[p].inserted + 1))
        /\ UNCHANGED <<task_groups, seq, allocated, last, wlock>>
        /\ RaceKeep

(* conn.commit().                                                          *)
RaceCommit ==
    \E p \in Procs :
        /\ conn[p].pc = "writing"
        /\ conn[p].inserted = Len(conn[p].assigned_to)
        /\ task_groups' = task_groups \cup {PendingGroup(p)}
        /\ tasks' = tasks \cup PendingTasks(p, conn[p].inserted)
        /\ seq' = seq + conn[p].inserted
        /\ allocated' = allocated \cup {conn[p].group_task_id}
        /\ conn' = [conn EXCEPT ![p].pc = "done"]
        /\ wlock' = None
        /\ UNCHANGED last
        /\ RaceKeep

(* A statement of the open transaction fails in the storage: the handler   *)
(* rolls back and re-raises.                                               *)
RaceFail ==
    \E p \in Procs :
        /\ conn[p].pc = "writing"
        /\ conn' = [conn EXCEPT ![p].pc = "done", ![p].exc = "OperationalError"]
        /\ wlock' = None
        /\ UNCHANGED <<task_store, last>>
        /\ RaceKeep

(* A reader on a connection of its own.                                    *)
RaceGetAllTasks ==
    /\ last' = Call("get_all_tasks", NoArgs, get_all_tasks, 0)
    /\ UNCHANGED <<task_store, conns>>
    /\ RaceKeep

RaceGetTasksByGroup ==
    \E group_task_id \in GroupTaskIds :
        /\ last' = Call("get_tasks_by_group",
                        [NoArgs EXCEPT !.group_task_id = group_task_id],
                        get_tasks_by_group(group_task_id), 0)
        /\ UNCHANGED <<task_store, conns>>
        /\ RaceKeep

NextRace ==
    \/ RaceSelectMax
    \/ RaceInsertGroup
    \/ RaceLocked
    \/ RaceInsertTask
    \/ RaceCommit
    \/ RaceFail
    \/ RaceGetAllTasks
    \/ RaceGetTasksByGroup

SpecRace == Init /\ [][NextRace]_vars

----------------------------------------------------------------------------
(* Users, groups and memberships: repositories/users_repository.py and     *)
(* repositories/groups_repository.py behind /api/users and /api/groups.    *)

Usernames   == {"@a", "@b"}
FullNames   == {"Ann", None}
GroupNames  == {"Dev", "Ops"}
UserGroupIds == {"-100", ""}

(* The lists of group ids a caller sends: up to two ids, repeats included. *)
GroupLists ==
    {<<>>} \cup {<<a>> : a \in UserGroupIds}
           \cup {<<a, b>> : a \in UserGroupIds, b \in UserGroupIds}

UsernamesOf(U) == {u.username : u \in U}

GroupKeys(G) == {g.id : g \in G}

UserResult(U, G, UG, exc, ret) ==
    [users |-> U, groups |-> G, user_groups |-> UG, exc |-> exc, ret_users |-> ret]

UserRaise(exc) == UserResult(users, groups, user_groups, exc, {})

(* The User objects get_all_users builds from the LEFT JOIN: one per users *)
(* row, with the non-empty group ids of its user_groups rows.  The result  *)
(* is kept as a set; its ORDER BY username is not modelled.                *)
UserObjects(U, UG) ==
    {[username |-> u.username, full_name |-> u.full_name,
      groups |-> {ug.group_id : ug \in {x \in UG : x.username = u.username
                                                   /\ x.group_id # ""}}] : u \in U}

get_all_users == UserResult(users, groups, user_groups, "none",
                            UserObjects(users, user_groups))

(* The user_groups rows INSERTed for a list of group ids.                  *)
Memberships(username, group_list) ==
    {[username |-> username, group_id |-> group_list[i]] : i \in DOMAIN group_list}

(* The constraints of user_groups on those INSERTs: the PRIMARY KEY        *)
(* (username, group_id) and the FOREIGN KEY to groups (id).                *)
MembershipsOk(G, group_list) ==
    /\ \A i \in DOMAIN group_list : group_list[i] \in GroupKeys(G)
    /\ \A i, j \in DOMAIN group_list : group_list[i] = group_list[j] => i = j

upsert_user(username, full_name, group_list) ==
    LET U2  == {u \in users : u.username # username}
                  \cup {[username |-> username, full_name |-> full_name]}
        UG2 == {ug \in user_groups : ug.username # username}
    IN IF ~MembershipsOk(groups, group_list) THEN UserRaise("IntegrityError")
       ELSE UserResult(U2, groups, UG2 \cup Memberships(username, group_list), "none",
                       {[username |-> username, full_name |-> full_name,
                         groups |-> Range(group_list)]})

update_user(username, full_name, group_list) ==
    LET U2  == {u \in users : u.username # username}
                  \cup {[username |-> username, full_name |-> full_name]}
        UG2 == {ug \in user_groups : ug.username # username}
    IN IF username \notin UsernamesOf(users) THEN UserRaise("ValueError")
       ELSE IF ~MembershipsOk(groups, group_list) THEN UserRaise("IntegrityError")
       ELSE UserResult(U2, groups, UG2 \cup Memberships(username, group_list), "none",
                       {[username |-> username, full_name |-> full_name,
                         groups |-> Range(group_list)]})

(* UsersRepository defines get_all_users, upsert_user and update_user      *)
(* only: the attribute lookup users_repo.delete_user fails.                *)
delete_user(username) == UserRaise("AttributeError")

(* INSERT OR REPLACE INTO groups: replacing a row deletes the old one, and *)
(* with it (ON DELETE CASCADE) the user_groups rows of that group.         *)
create_or_update_group(group_id, name) ==
    UserResult(users,
               {g \in groups : g.id # group_id} \cup {[id |-> group_id, name |-> name]},
               IF group_id \in GroupKeys(groups)
               THEN {ug \in user_groups : ug.group_id # group_id}
               ELSE user_groups,
               "none", {})

NoUserArgs == [username |-> None, full_name |-> None, groups |-> <<>>]

UserCall(op, args, r, http) ==
    [op |-> op, username |-> args.username, full_name |-> args.full_name,
     groups |-> args.groups, exc |-> r.exc, http |-> http, ret_users |-> r.ret_users]

UserApply(op, args, r, http) ==
    /\ users' = r.users
    /\ groups' = r.groups
    /\ user_groups' = r.user_groups
    /\ last' = UserCall(op, args, r, http)
    /\ UNCHANGED <<task_store, e2e, conns, bot_side>>

GetUsers ==
    UserApply("GET /api/users", NoUserArgs, get_all_users, 200)

PostUser ==
    \E username \in Usernames, full_name \in FullNames, group_list \in GroupLists :
        LET r == upsert_user(username, full_name, group_list)
        IN UserApply("POST /api/users",
                     [username |-> username, full_name |-> full_name,
                      groups |-> group_list], r, HttpOf(r.exc))

UpdateUser ==
    \E username \in Usernames, full_name \in FullNames, group_list \in GroupLists :
        UserApply("update_user",
                  [username |-> username, full_name |-> full_name,
                   groups |-> group_list],
                  update_user(username, full_name, group_list), 0)

DeleteUser ==
    \E username \in Usernames :
        LET r == delete_user(username)
        IN UserApply("DELETE /api/users/{username}",
                     [NoUserArgs EXCEPT !.username = username], r, HttpOf(r.exc))

PostGroup ==
    \E group_id \in UserGroupIds, name \in GroupNames :
        LET r == create_or_update_group(group_id, name)
        IN UserApply("POST /api/groups", [NoUserArgs EXCEPT !.username = group_id,
                                                          !.full_name = name],
                     r, HttpOf(r.exc))

NextUsers ==
    \/ GetUsers
    \/ PostUser
    \/ UpdateUser
    \/ DeleteUser
    \/ PostGroup

SpecUsers == Init /\ [][NextUsers]_vars

----------------------------------------------------------------------------
(* The configuration: repositories/config_repository.py behind             *)
(* /api/config, and the bot's module global `config` with the handlers     *)
(* that change it.  Handles are sequences of characters.                   *)

RawHandles == {<<"a">>, <<"@", "a">>, <<"@", "b">>}
EnvAdmins  == {{}, {<<"@", "r">>}}        \* ADMIN_USERNAMES of the bot's environment

normalize_handle(username) ==
    IF Len(username) > 0 /\ username[1] = "@" THEN username ELSE <<"@">> \o username

Configs == [ConfigToggles -> BOOLEAN]

(* str.lower() on the texts a config row can hold.                         *)
LowerText(value) ==
    IF value = "True" THEN "true" ELSE IF value = "False" THEN "false" ELSE value

(* set_config: the text stored for a toggle.                               *)
BoolToText(val) == IF val THEN "true" ELSE "false"

(* Variant: any non-empty text counts as true.                             *)
TextToBoolNonEmpty(value) == value # ""

(* get_config: the toggle read from a stored text.                         *)
TextToBool(value) == LowerText(value) \in {"true", "1", "yes", "on"}

(* Config has the four toggles only: the rows admins and group_chat_ids    *)
(* are not keys of Config().model_dump() and are skipped.                  *)
get_config(rows) == [key \in ConfigToggles |-> TextToBool(rows[key])]

set_config(rows, cfg) ==
    [key \in DOMAIN rows |->
        IF key \in ConfigToggles THEN BoolToText(cfg[key]) ELSE rows[key]]

(* POST /api/config: the body is validated as Config, which drops the keys *)
(* admins and group_chat_ids the bot sends.                                *)
update_config(rows, body) == set_config(rows, body.toggles)

(* The body of GET /api/config as with_defaults reads it: no admins key.   *)
RemoteConfig(rows) == [toggles |-> get_config(rows), admins |-> {}]

(* with_defaults: an absent or empty admins list becomes the list of the   *)
(* environment.                                                            *)
with_defaults(data, env) ==
    [toggles |-> data.toggles, admins |-> IF data.admins = {} THEN env ELSE data.admins]

user_is_admin(cfg, username) == normalize_handle(username) \in cfg.admins

InitConfig ==
    /\ InitTables
    /\ \E env \in EnvAdmins :
          bot = [pc |-> "config", env |-> env,
                 config |-> with_defaults([toggles |-> [key \in ConfigToggles |-> TRUE],
                                           admins |-> {}], env)]

ConfigKeep == UNCHANGED <<task_store, e2e, user_store, conns>>

(* save_config_to_api: one POST; an exception is logged and swallowed.     *)
save_config_to_api(cfg, up) == IF up THEN update_config(config_rows, cfg) ELSE config_rows

AddAdminUsername ==
    \E text \in RawHandles, up \in BOOLEAN :
        LET cfg == [bot.config EXCEPT !.admins = @ \cup {normalize_handle(text)}]
        IN /\ bot' = [bot EXCEPT !.config = cfg]
           /\ config_rows' = save_config_to_api(cfg, up)
           /\ last' = [op |-> "add_admin_username", up |-> up, shown |-> "admin added"]
           /\ ConfigKeep

NotifyToggle ==
    \E key \in ConfigToggles, up \in BOOLEAN :
        LET cfg == [bot.config EXCEPT !.toggles[key] = ~@]
        IN /\ bot' = [bot EXCEPT !.config = cfg]
           /\ config_rows' = save_config_to_api(cfg, up)
           /\ last' = [op |-> "cb_notify_toggle", up |-> up, shown |-> "notify menu"]
           /\ ConfigKeep

(* fetch_config_from_api: the bot's config after the GET, or after its     *)
(* failure.                                                                *)
fetch_config_from_api(up) ==
    IF up THEN with_defaults(RemoteConfig(config_rows), bot.env)
    ELSE with_defaults(bot.config, bot.env)

FetchConfigFromApi ==
    \E up \in BOOLEAN :
        /\ bot' = [bot EXCEPT !.config = fetch_config_from_api(up)]
        /\ last' = [op |-> "fetch_config_from_api", up |-> up, shown |-> "none"]
        /\ UNCHANGED config_rows
        /\ ConfigKeep

PostConfig ==
    \E cfg \in Configs :
        /\ config_rows' = set_config(config_rows, cfg)
        /\ last' = [op |-> "set_config", cfg |-> cfg, ret |-> cfg]
        /\ UNCHANGED bot
        /\ ConfigKeep

GetConfig ==
    /\ last' = [op |-> "get_config", ret |-> get_config(config_rows)]
    /\ UNCHANGED bot_side
    /\ ConfigKeep

NextConfig ==
    \/ AddAdminUsername
    \/ NotifyToggle
    \/ FetchConfigFromApi
    \/ PostConfig
    \/ GetConfig

SpecConfig == InitConfig /\ [][NextConfig]_vars

----------------------------------------------------------------------------
(* The bot's calls to the REST API for tasks: the helpers *_via_api and    *)
(* the handlers of the employee and administrator buttons that use them.   *)

TgUsernames == {<<"a">>, <<"b">>}       \* from_user.username of the requester

(* The characters of the handles stored in tasks.assigned_to.              *)
HandleChars(text) ==
    IF text = "@a" THEN <<"@", "a">> ELSE IF text = "@b" THEN <<"@", "b">> ELSE <<>>

(* What becomes of a request: answered by the API, lost on the network, or *)
(* answered 500 after a storage failure.                                   *)
Nets == {"ok", "down", "error"}

ErrorMessages ==
    {"task not found", "group not found", "status update failed",
     "group update failed", "delete failed"}

(* The exception raised inside the try block of a helper.                  *)
RaisedInTry(net, http, not_found) ==
    IF net = "down" THEN "ConnectError"
    ELSE IF http = 404 THEN not_found
    ELSE IF http >= 400 THEN "HTTPStatusError"
    ELSE "none"

(* "except Exception as exc: raise RuntimeError(<generic>) from exc": the  *)
(* message of the RuntimeError that leaves the helper.                     *)
ViaApiError(raised, generic) == IF raised = "none" THEN "none" ELSE generic

update_task_status_via_api(net, http) ==
    ViaApiError(RaisedInTry(net, http, "task not found"), "status update failed")

update_group_via_api(net, http) ==
    ViaApiError(RaisedInTry(net, http, "group not found"), "group update failed")

delete_task_via_api(net, http) ==
    ViaApiError(RaisedInTry(net, http, "task not found"), "delete failed")

StatusPayload(status) ==
    [kind |-> "TaskStatusUpdate", status |-> status, group_operation |-> FALSE,
     upd |-> NoUpdate]

DeadlinePayload(deadline) ==
    [kind |-> "GroupOperationRequest", status |-> None, group_operation |-> TRUE,
     upd |-> [NoUpdate EXCEPT !.deadline = deadline]]

(* The status code the bot receives (0: none).                             *)
HttpSeen(net, r) == IF net = "ok" THEN HttpOf(r.exc) ELSE IF net = "error" THEN 500 ELSE 0

(* The store after the request: the API's result when it served it.        *)
BotStore(net, r) ==
    /\ task_groups' = (IF net = "ok" THEN r.groups ELSE task_groups)
    /\ tasks' = (IF net = "ok" THEN r.tasks ELSE tasks)
    /\ seq' = (IF net = "ok" THEN r.seq ELSE seq)
    /\ allocated' = allocated
    /\ UNCHANGED <<e2e, user_store, conns, bot_side>>

BotCall(op, username, action, task_id, net, http, shown) ==
    [op |-> op, username |-> username, action |-> action, task_id |-> task_id,
     net |-> net, http |-> http, requests |-> 1, shown |-> shown]

(* /done <id>.                                                             *)
CmdDone ==
    \E username \in TgUsernames, task_id \in TaskIds, net \in Nets, now \in Stamps :
        LET r    == update_task(task_id, StatusPayload("completed"), now)
            http == HttpSeen(net, r)
            err  == update_task_status_via_api(net, http)
        IN /\ BotStore(net, r)
           /\ last' = BotCall("cmd_done", username, "complete", task_id, net, http,
                              IF err # "none" THEN err ELSE "marked completed")

(* task:complete:<id>, task:reopen:<id>, task:delete:<id>.                 *)
CbTaskActions ==
    \E username \in TgUsernames, action \in {"complete", "reopen", "delete"},
       task_id \in TaskIds, net \in Nets, now \in Stamps :
        LET r    == IF action = "delete" THEN web_delete_task(task_id)
                    ELSE update_task(task_id,
                                     StatusPayload(IF action = "complete"
                                                   THEN "completed" ELSE "active"), now)
            http == HttpSeen(net, r)
            err  == IF action = "delete" THEN delete_task_via_api(net, http)
                    ELSE update_task_status_via_api(net, http)
        IN /\ BotStore(net, r)
           /\ last' = BotCall("cb_task_actions", username, action, task_id, net, http,
                              IF err # "none" THEN err ELSE "updated")

(* deadline_update:<id>:<choice> with a choice other than custom.          *)
CbDeadlineUpdate ==
    \E username \in TgUsernames, deadline \in Deadlines, task_id \in TaskIds,
       net \in Nets, now \in Stamps :
        LET r    == update_task(task_id, DeadlinePayload(deadline), now)
            http == HttpSeen(net, r)
            err  == update_group_via_api(net, http)
        IN /\ BotStore(net, r)
           /\ last' = BotCall("cb_deadline_update", username, "deadline", task_id,
                              net, http,
                              IF err # "none" THEN err ELSE "deadline updated")

NextBot ==
    \/ CreateTaskGroup
    \/ CmdDone
    \/ CbTaskActions
    \/ CbDeadlineUpdate

SpecBot == Init /\ [][NextBot]_vars

----------------------------------------------------------------------------
(* Deadlines as dates, the overdue predicate, the named filters and the    *)
(* pages of the task lists of the bot.                                     *)

(* The deadline strings of the model, each with its characters.            *)
DeadlineTable ==
    { <<"29.12.2026", <<"2", "9", ".", "1", "2", ".", "2", "0", "2", "6">>>>,
       <<"30.12.2026", <<"3", "0", ".", "1", "2", ".", "2", "0", "2", "6">>>>,
       <<"31.12.2026", <<"3", "1", ".", "1", "2", ".", "2", "0", "2", "6">>>>,
       <<"02.01.2027", <<"0", "2", ".", "0", "1", ".", "2", "0", "2", "7">>>>,
       <<"06.01.2027", <<"0", "6", ".", "0", "1", ".", "2", "0", "2", "7">>>>,
       <<"07.01.2027", <<"0", "7", ".", "0", "1", ".", "2", "0", "2", "7">>>>,
       <<"29.01.2027", <<"2", "9", ".", "0", "1", ".", "2", "0", "2", "7">>>>,
       <<"30.01.2027", <<"3", "0", ".", "0", "1", ".", "2", "0", "2", "7">>>>,
       <<"27.02.2027", <<"2", "7", ".", "0", "2", ".", "2", "0", "2", "7">>>>,
       <<"28.02.2027", <<"2", "8", ".", "0", "2", ".", "2", "0", "2", "7">>>>,
       <<"01.03.2027", <<"0", "1", ".", "0", "3", ".", "2", "0", "2", "7">>>>,
       <<"03.03.2027", <<"0", "3", ".", "0", "3", ".", "2", "0", "2", "7">>>>,
       <<"07.03.2027", <<"0", "7", ".", "0", "3", ".", "2", "0", "2", "7">>>>,
       <<"08.03.2027", <<"0", "8", ".", "0", "3", ".", "2", "0", "2", "7">>>>,
       <<"30.03.2027", <<"3", "0", ".", "0", "3", ".", "2", "0", "2", "7">>>>,
       <<"31.03.2027", <<"3", "1", ".", "0", "3", ".", "2", "0", "2", "7">>>>,
       <<"31.12.2099", <<"3", "1", ".", "1", "2", ".", "2", "0", "9", "9">>>>,
       <<"", <<>>>>,
       <<"1.1.2027", <<"1", ".", "1", ".", "2", "0", "2", "7">>>>,
       <<"2026-12-30", <<"2", "0", "2", "6", "-", "1", "2", "-", "3", "0">>>>,
       <<"31.02.2027", <<"3", "1", ".", "0", "2", ".", "2", "0", "2", "7">>>>,
       <<"29.02.2027", <<"2", "9", ".", "0", "2", ".", "2", "0", "2", "7">>>>,
       <<"00.01.2027", <<"0", "0", ".", "0", "1", ".", "2", "0", "2", "7">>>>,
       <<"30.12.26", <<"3", "0", ".", "1", "2", ".", "2", "6">>>>,
       <<"soon", <<"s", "o", "o", "n">>>>,
       <<"30.12.2026.", <<"3", "0", ".", "1", "2", ".", "2", "0", "2", "6", ".">>>>,
       <<"29.12.2026 23:59:59",
         <<"2", "9", ".", "1", "2", ".", "2", "0", "2", "6", " ",
           "2", "3", ":", "5", "9", ":", "5", "9">>>> }

DeadlineTexts == {p[1] : p \in DeadlineTable}

Chars(text) == (CHOOSE p \in DeadlineTable : p[1] = text)[2]

TextOf(chars) == (CHOOSE p \in DeadlineTable : p[2] = chars)[1]

DigitChars == <<"0", "1", "2", "3", "4", "5", "6", "7", "8", "9">>

DigitValue(c) == (CHOOSE i \in DOMAIN DigitChars : DigitChars[i] = c) - 1

IsNumber(s) == s # <<>> /\ \A i \in DOMAIN s : s[i] \in Range(DigitChars)

RECURSIVE Num(_)
Num(s) == IF s = <<>> THEN 0
          ELSE 10 * Num(SubSeq(s, 1, Len(s) - 1)) + DigitValue(s[Len(s)])

IsLeap(y) == y % 4 = 0 /\ (y % 100 # 0 \/ y % 400 = 0)

DaysInMonth(y, m) ==
    IF m = 2 THEN (IF IsLeap(y) THEN 29 ELSE 28)
    ELSE IF m \in {4, 6, 9, 11} THEN 30 ELSE 31

RECURSIVE DaysBeforeMonth(_, _)
DaysBeforeMonth(y, m) ==
    IF m = 1 THEN 0 ELSE DaysBeforeMonth(y, m - 1) + DaysInMonth(y, m - 1)

(* datetime.date.toordinal(): the number of the day, 01.01.0001 being 1.   *)
ToOrdinal(y, m, d) ==
    365 * (y - 1) + ((y - 1) \div 4) - ((y - 1) \div 100) + ((y - 1) \div 400)
        + DaysBeforeMonth(y, m) + d

NoDate == 0

(* datetime.datetime.strptime(deadline, "%d.%m.%Y").date(): one or two     *)
(* digits of the day, a dot, one or two digits of the month, a dot, four   *)
(* digits of the year, and the three numbers a date of the calendar.       *)
strptime(s) ==
    LET dots == {i \in DOMAIN s : s[i] = "."}
    IN IF Cardinality(dots) # 2 THEN NoDate
       ELSE LET i  == CHOOSE x \in dots : \A z \in dots : x <= z
                j  == CHOOSE x \in dots : \A z \in dots : x >= z
                ds == SubSeq(s, 1, i - 1)
                ms == SubSeq(s, i + 1, j - 1)
                ys == SubSeq(s, j + 1, Len(s))
            IN IF ~(/\ IsNumber(ds) /\ Len(ds) <= 2
                    /\ IsNumber(ms) /\ Len(ms) <= 2
                    /\ IsNumber(ys) /\ Len(ys) = 4)
               THEN NoDate
               ELSE LET d == Num(ds)
                        m == Num(ms)
                        y == Num(ys)
                    IN IF m \notin 1..12 \/ y < 1 THEN NoDate
                       ELSE IF d \notin 1..DaysInMonth(y, m) THEN NoDate
                       ELSE ToOrdinal(y, m, d)

(* Returns NoDate where the code returns None.                             *)
deadline_to_date(deadline) == strptime(Chars(deadline))

ModelYears == 2026..2027

(* date.strftime("%d.%m.%Y").                                              *)
strftime(date) ==
    LET y == CHOOSE x \in ModelYears :
                 ToOrdinal(x, 1, 1) <= date /\ date < ToOrdinal(x + 1, 1, 1)
        m == CHOOSE x \in 1..12 :
                 ToOrdinal(y, x, 1) <= date /\ date < ToOrdinal(y, x, 1) + DaysInMonth(y, x)
        d == date - ToOrdinal(y, m, 1) + 1
        Two(n) == <<DigitChars[(n \div 10) + 1], DigitChars[(n % 10) + 1]>>
    IN Two(d) \o <<".">> \o Two(m) \o <<".">> \o Two(y \div 100) \o Two(y % 100)

(* The values of datetime.date.today() the model runs under.               *)
Todays == {ToOrdinal(2026, 12, 30), ToOrdinal(2027, 2, 28)}

(* Variant: a deadline of today counts as overdue.                         *)
is_overdue_from_today(task, today) ==
    IF task.status = "completed" THEN FALSE
    ELSE LET date_val == deadline_to_date(task.deadline)
         IN IF date_val = NoDate THEN FALSE ELSE date_val <= today

is_overdue(task, today) ==
    IF task.status = "completed" THEN FALSE
    ELSE LET date_val == deadline_to_date(task.deadline)
         IN IF date_val = NoDate THEN FALSE ELSE date_val < today

FilterKeys ==
    {"all", "active", "completed", "overdue", "today", "tomorrow", "week", "month"}

(* Variant: the week has no lower end.                                     *)
task_matches_filter_past_week(task, filter_key, today) ==
    LET deadline_date == deadline_to_date(task.deadline)
        status        == task.status
    IN IF filter_key = "all" THEN TRUE
       ELSE IF filter_key = "active" THEN status = "active"
       ELSE IF filter_key = "completed" THEN status = "completed"
       ELSE IF filter_key = "overdue" THEN is_overdue(task, today)
       ELSE IF deadline_date = NoDate THEN FALSE
       ELSE IF filter_key = "today" THEN deadline_date = today
       ELSE IF filter_key = "tomorrow" THEN deadline_date = today + 1
       ELSE IF filter_key = "week" THEN deadline_date <= today + 7
       ELSE IF filter_key = "month"
       THEN today <= deadline_date /\ deadline_date <= today + 30
       ELSE TRUE

task_matches_filter(task, filter_key, today) ==
    LET deadline_date == deadline_to_date(task.deadline)
        status        == task.status
    IN IF filter_key = "all" THEN TRUE
       ELSE IF filter_key = "active" THEN status = "active"
       ELSE IF filter_key = "completed" THEN status = "completed"
       ELSE IF filter_key = "overdue" THEN is_overdue(task, today)
       ELSE IF deadline_date = NoDate THEN FALSE
       ELSE IF filter_key = "today" THEN deadline_date = today
       ELSE IF filter_key = "tomorrow" THEN deadline_date = today + 1
       ELSE IF filter_key = "week"
       THEN today <= deadline_date /\ deadline_date <= today + 7
       ELSE IF filter_key = "month"
       THEN today <= deadline_date /\ deadline_date <= today + 30
       ELSE TRUE

TASKS_PER_PAGE == 5

MaxListLen == 11

MaxPage == 3

(* tasks[start:end] of Python for 0 <= start <= end.                       *)
Slice(task_list, start, end) ==
    IF start >= Len(task_list) THEN <<>>
    ELSE SubSeq(task_list, start + 1, IF end < Len(task_list) THEN end ELSE Len(task_list))

(* Variant: a next page is offered when the list ends with this page.      *)
paginate_tasks_next_at_end(task_list, page) ==
    LET start == page * TASKS_PER_PAGE
        end   == start + TASKS_PER_PAGE
    IN [sliced |-> Slice(task_list, start, end), has_prev |-> page > 0,
        has_next |-> end <= Len(task_list)]

paginate_tasks(task_list, page) ==
    LET start == page * TASKS_PER_PAGE
        end   == start + TASKS_PER_PAGE
    IN [sliced |-> Slice(task_list, start, end), has_prev |-> page > 0,
        has_next |-> end < Len(task_list)]

(* The task, the list (its tasks are told apart by their ids 1..n) and the *)
(* date of a view.                                                         *)
InitViews ==
    /\ InitTables
    /\ bot \in [pc : {"views"}, today : Todays, status : ValidStatuses,
                deadline : DeadlineTexts, n : 0..MaxListLen]

ViewTask == [status |-> bot.status, deadline |-> bot.deadline]

ViewList == [i \in 1..bot.n |-> i]

ViewCall(op, filter_key, page, result, paged) ==
    [op |-> op, filter_key |-> filter_key, page |-> page, result |-> result,
     paged |-> paged]

NoPage == [sliced |-> <<>>, has_prev |-> FALSE, has_next |-> FALSE]

ViewKeep == UNCHANGED <<task_store, e2e, user_store, conns, bot_side>>

IsOverdue ==
    /\ last' = ViewCall("is_overdue", None, 0, is_overdue(ViewTask, bot.today), NoPage)
    /\ ViewKeep

TaskMatchesFilter ==
    \E filter_key \in FilterKeys :
        /\ last' = ViewCall("task_matches_filter", filter_key, 0,
                            task_matches_filter(ViewTask, filter_key, bot.today), NoPage)
        /\ ViewKeep

PaginateTasks ==
    \E page \in 0..MaxPage :
        /\ last' = ViewCall("paginate_tasks", None, page, FALSE,
                            paginate_tasks(ViewList, page))
        /\ ViewKeep

NextViews ==
    \/ IsOverdue
    \/ TaskMatchesFilter
    \/ PaginateTasks

SpecViews == InitViews /\ [][NextViews]_vars

----------------------------------------------------------------------------
(* The router: a callback goes to the first registered handler whose       *)
(* filter accepts its data.  Callback data is the sequence of its parts    *)
(* between the colons.                                                     *)

(* The filters data.startswith("<prefix>:") in the order of registration.  *)
CallbackRoutes ==
    << <<<<"group">>, "cb_choose_group">>,
       <<<<"group", "view">>, "cb_view_group">>,
       <<<<"users">>, "cb_users_actions">>,
       <<<<"users", "remove">>, "cb_remove_user">>,
       <<<<"admins">>, "cb_admins_actions">>,
       <<<<"admins", "remove">>, "cb_remove_admin">> >>

StartsWith(parts, prefix) ==
    Len(parts) > Len(prefix) /\ SubSeq(parts, 1, Len(prefix)) = prefix

Route(parts) ==
    LET hits == {i \in DOMAIN CallbackRoutes : StartsWith(parts, CallbackRoutes[i][1])}
    IN IF hits = {} THEN "unhandled"
       ELSE CallbackRoutes[CHOOSE i \in hits : \A j \in hits : i <= j][2]

(* The buttons of the administrators menu and of the removal list.         *)
AdminsCallbacks ==
    {<<"admins", "list">>, <<"admins", "remove">>}
        \cup {<<"admins", "remove", h>> : h \in {<<"@", "a">>, <<"@", "r">>}}

(* The buttons of the users menu and of the removal list.                  *)
UsersCallbacks ==
    {<<"users", "list">>, <<"users", "remove">>}
        \cup {<<"users", "remove", u>> : u \in {"@a", "@b"}}

ButtonCall(op, parts, up, saves, deletes, shown) ==
    [op |-> op, parts |-> parts, up |-> up, saves |-> saves, deletes |-> deletes,
     shown |-> shown]

(* admins:list, admins:remove, and every other data that starts with       *)
(* "admins:".                                                              *)
CbAdminsActions ==
    \E parts \in AdminsCallbacks, up \in BOOLEAN :
        /\ Route(parts) = "cb_admins_actions"
        /\ bot' = [bot EXCEPT !.config = fetch_config_from_api(up)]
        /\ last' = ButtonCall("cb_admins_actions", parts, up, 0, 0,
                              IF parts[2] = "list" THEN "admins list"
                              ELSE "choose the admin to remove")
        /\ UNCHANGED config_rows
        /\ ConfigKeep

(* users:list, users:remove, and every other data that starts with         *)
(* "users:": one GET /api/users that refreshes the list of the buttons.    *)
CbUsersActions ==
    \E parts \in UsersCallbacks, up \in BOOLEAN :
        /\ Route(parts) = "cb_users_actions"
        /\ last' = ButtonCall("cb_users_actions", parts, up, 0, 0,
                              IF parts[2] = "list" THEN "users list"
                              ELSE "choose the user to remove")
        /\ UNCHANGED bot_side
        /\ ConfigKeep

NextAdmins ==
    \/ AddAdminUsername
    \/ CbAdminsActions
    \/ CbUsersActions

SpecAdmins == InitConfig /\ [][NextAdmins]_vars

----------------------------------------------------------------------------
(* The creation form of the bot: the aiogram FSM context of one            *)
(* administrator (its state and its data), the handlers that read or write *)
(* it, and the form that edits the text of a task, which shares the        *)
(* context.                                                                *)

CachedUsernames == {<<"a">>}      \* users_cache[i]["username"]

(* The text of a handle given by its characters.                           *)
HandleText(chars) ==
    IF chars = <<"@", "a">> THEN "@a" ELSE IF chars = <<"@", "b">> THEN "@b" ELSE "@boss"

AdminUsername == <<"b", "o", "s", "s">>         \* from_user.username of the admin

(* message.text: None for a message that is not a text message.            *)
MessageTexts == Texts \cup {None}

(* group:none of the form, and the buttons group:view:<group_id> of the    *)
(* by-group summary, one for each group_id of the listed tasks.            *)
GroupCallbacks ==
    {<<"group", "none">>}
        \cup {<<"group", "view", g.group_id>> :
                 g \in {x \in task_groups :
                           \E t \in tasks : t.group_task_id = x.group_task_id}}

DeadlineChoices == {"today", "custom"}

(* The date typed after deadline:custom.                                   *)
CustomDeadlines == {"30.12.2026"}

EmptyData == [k \in {} |-> None]

DataGet(data, key, default) == IF key \in DOMAIN data THEN data[key] ELSE default

update_data(data, key, value) ==
    [k \in DOMAIN data \cup {key} |-> IF k = key THEN value ELSE data[k]]

(* Variant: the state is reset and the data is kept.                       *)
state_clear_state_only(fsm) == [fsm EXCEPT !.state = None]

(* FSMContext.clear(): no state and no data.                               *)
state_clear(fsm) == [fsm EXCEPT !.state = None, !.data = EmptyData]

set_state(fsm, state) == [fsm EXCEPT !.state = state]

(* selected.remove(user) / selected.append(user).                          *)
ToggleSelected(selected, user) ==
    IF user \in Range(selected)
    THEN SelectSeq(selected, LAMBDA u : u # user)
    ELSE Append(selected, user)

(* deadline_from_choice: the date of today plus the days of the choice,    *)
(* formatted DD.MM.YYYY.                                                   *)
deadline_from_choice(choice, today) ==
    IF choice = "today" THEN TextOf(strftime(today))
    ELSE IF choice = "tomorrow" THEN TextOf(strftime(today + 1))
    ELSE IF choice = "3days" THEN TextOf(strftime(today + 3))
    ELSE IF choice = "week" THEN TextOf(strftime(today + 7))
    ELSE TextOf(strftime(today))

(* datetime.date.today() while the form is filled in.                      *)
FormToday == ToOrdinal(2026, 12, 30)

create_task_group_via_api(net, http) ==
    ViaApiError(RaisedInTry(net, http, "HTTPStatusError"), "create failed")

InitForm ==
    /\ InitTables
    /\ bot = [pc |-> "form", state |-> None, data |-> EmptyData, selected |-> 0]

FormCall(op, action, requests, assigned_to, task_text, net, http, shown) ==
    [op |-> op, action |-> action, requests |-> requests, assigned_to |-> assigned_to,
     task_text |-> task_text, net |-> net, http |-> http, shown |-> shown]

(* A handler that sends no request.                                        *)
FormStep(op, action, fsm, shown) ==
    /\ bot' = fsm
    /\ last' = FormCall(op, action, 0, <<>>, None, None, 0, shown)
    /\ UNCHANGED <<task_store, e2e, user_store, conns, config_rows>>

(* A handler that sends request r over net.                                *)
FormRequest(op, action, fsm, assigned_to, task_text, net, r, http, shown) ==
    /\ net = "ok" => Bounded(r)
    /\ bot' = fsm
    /\ task_groups' = (IF net = "ok" THEN r.groups ELSE task_groups)
    /\ tasks' = (IF net = "ok" THEN r.tasks ELSE tasks)
    /\ seq' = (IF net = "ok" THEN r.seq ELSE seq)
    /\ allocated' = (IF net = "ok" THEN allocated \cup GroupIds(r.groups) ELSE allocated)
    /\ last' = FormCall(op, action, 1, assigned_to, task_text, net, http, shown)
    /\ UNCHANGED <<e2e, user_store, conns, config_rows>>

(* The body of POST /api/tasks validates as TaskCreate only when its       *)
(* task_text is a string; otherwise the answer is 422.                     *)
PostTasksFromBot(payload, now) ==
    IF payload.task_text = None THEN Raise("RequestValidationError")
    ELSE create_or_add_tasks(payload, now)

HttpOfPost(net, r) ==
    IF net = "down" THEN 0 ELSE IF net = "error" THEN 500
    ELSE IF r.exc = "RequestValidationError" THEN 422 ELSE HttpOf(r.exc)

finalize_task_creation(op, action, fsm, net, now) ==
    LET data    == fsm.data
        payload == [kind |-> "TaskCreate",
                    task_text |-> DataGet(data, "task_text", ""),
                    deadline |-> DataGet(data, "deadline", ""),
                    group_id |-> DataGet(data, "group_id", ""),
                    assigned_to |-> DataGet(data, "assignees", <<>>),
                    assigned_by |-> HandleText(normalize_handle(AdminUsername)),
                    group_task_id |-> 0]
        r       == PostTasksFromBot(payload, now)
        http    == HttpOfPost(net, r)
        err     == create_task_group_via_api(net, http)
    IN FormRequest(op, action, state_clear(fsm), payload.assigned_to,
                   payload.task_text, net, r, http,
                   IF err # "none" THEN err ELSE "task created")

(* admin:new.                                                              *)
CbAdminNew ==
    /\ bot.pc = "form"
    /\ FormStep("cb_admin_new", "new",
                set_state(state_clear(bot), "choosing_executors"), "choose executors")

(* Variant: exec:done goes on with nobody selected.                        *)
NobodySelectedIgnored(selected) == FALSE

(* "if not selected" of exec:done.                                         *)
NobodySelected(selected) == selected = <<>>

(* exec:cancel, exec:toggle:<username>, exec:done.                         *)
CbExecSelection ==
    \E action \in {"cancel", "toggle", "done"}, username \in CachedUsernames :
        LET selected == DataGet(bot.data, "assignees", <<>>)
            toggled  == ToggleSelected(selected, HandleText(normalize_handle(username)))
        IN IF action = "cancel"
           THEN FormStep("cb_exec_selection", action, state_clear(bot), "cancelled")
           ELSE IF action = "toggle"
           THEN FormStep("cb_exec_selection", action,
                         [bot EXCEPT !.data = update_data(@, "assignees", toggled)],
                         "selected")
           ELSE IF NobodySelected(selected)
           THEN FormStep("cb_exec_selection", action, bot, "choose at least one")
           ELSE FormStep("cb_exec_selection", action,
                         set_state([bot EXCEPT !.data =
                                        update_data(@, "assignees", selected)],
                                   "task_text"),
                         "enter the text")

(* A message while the state is AdminCreateTask.task_text.                 *)
AdminTaskText ==
    /\ bot.state = "task_text"
    /\ \E text \in MessageTexts :
        FormStep("admin_task_text", "text",
                 set_state([bot EXCEPT !.data = update_data(@, "task_text", text)],
                           "group"),
                 "choose the group")

(* group:none, group:choose:<id>, and every other data that starts with    *)
(* "group:".                                                               *)
CbChooseGroup ==
    /\ bot.pc = "form"
    /\ \E parts \in GroupCallbacks :
        LET group_id == IF parts[2] = "none" THEN "" ELSE parts[3]
        IN /\ Route(parts) = "cb_choose_group"
           /\ FormStep("cb_choose_group", parts[2],
                       set_state([bot EXCEPT !.data =
                                      update_data(@, "group_id", group_id)],
                                 "deadline"),
                       "choose the deadline")

(* deadline:<choice>.                                                      *)
CbDeadlineChoice ==
    \E choice \in DeadlineChoices, net \in Nets, now \in Stamps :
        IF choice = "custom"
        THEN /\ net = "ok"
             /\ FormStep("cb_deadline_choice", choice,
                         set_state(bot, "custom_deadline"), "enter the date")
        ELSE finalize_task_creation(
                 "cb_deadline_choice", choice,
                 [bot EXCEPT !.data = update_data(@, "deadline",
                                                  deadline_from_choice(choice, FormToday))],
                 net, now)

(* A text message while the state is AdminCreateTask.custom_deadline.      *)
AdminCustomDeadline ==
    /\ bot.state = "custom_deadline"
    /\ \E text \in CustomDeadlines, net \in Nets, now \in Stamps :
        finalize_task_creation(
            "admin_custom_deadline", "deadline",
            [bot EXCEPT !.data = update_data(@, "deadline", text)], net, now)

(* select:edit_text:<id>.                                                  *)
CbSelectTask ==
    \E task_id \in TaskIds :
        FormStep("cb_select_task", "edit_text",
                 set_state([bot EXCEPT !.selected = task_id], "waiting_text"),
                 "enter the new text")

(* A text message while the state is ManageTextState.waiting_text.         *)
MsgNewTaskText ==
    /\ bot.state = "waiting_text"
    /\ \E text \in Texts, net \in Nets, now \in Stamps :
        LET task_id == bot.selected
            fsm     == state_clear([bot EXCEPT !.selected = 0])
            payload == [kind |-> "GroupOperationRequest", status |-> None,
                        group_operation |-> TRUE,
                        upd |-> [NoUpdate EXCEPT !.task_text = text]]
            r       == update_task(task_id, payload, now)
            http    == HttpSeen(net, r)
            err     == update_group_via_api(net, http)
        IN IF task_id = 0
           THEN /\ net = "ok"
                /\ FormStep("msg_new_task_text", "text", fsm, "no task selected")
           ELSE FormRequest("msg_new_task_text", "text", fsm, <<>>, text, net, r, http,
                            IF err # "none" THEN err ELSE "text updated")

NextForm ==
    \/ CbAdminNew
    \/ CbExecSelection
    \/ AdminTaskText
    \/ CbChooseGroup
    \/ CbDeadlineChoice
    \/ AdminCustomDeadline
    \/ CbSelectTask
    \/ MsgNewTaskText

SpecForm == InitForm /\ [][NextForm]_vars

----------------------------------------------------------------------------
(* GET /api/stats: the counters of StatsRepository.  A datetime is a day   *)
(* and the seconds since its midnight.                                     *)

NoDateTime == [date |-> NoDate, secs |-> 0 - 1]

(* datetime.fromisoformat on the ISO form the model has: YYYY-MM-DD.       *)
fromisoformat(s) ==
    IF ~(/\ Len(s) = 10 /\ s[5] = "-" /\ s[8] = "-"
         /\ IsNumber(SubSeq(s, 1, 4)) /\ IsNumber(SubSeq(s, 6, 7))
         /\ IsNumber(SubSeq(s, 9, 10)))
    THEN NoDateTime
    ELSE LET y == Num(SubSeq(s, 1, 4))
             m == Num(SubSeq(s, 6, 7))
             d == Num(SubSeq(s, 9, 10))
         IN IF m \notin 1..12 \/ y < 1 THEN NoDateTime
            ELSE IF d \notin 1..DaysInMonth(y, m) THEN NoDateTime
            ELSE [date |-> ToOrdinal(y, m, d), secs |-> 0]

(* %H:%M:%S, -1 when the text is no time of day.                           *)
TimeOfDay(s) ==
    IF ~(/\ Len(s) = 8 /\ s[3] = ":" /\ s[6] = ":"
         /\ IsNumber(SubSeq(s, 1, 2)) /\ IsNumber(SubSeq(s, 4, 5))
         /\ IsNumber(SubSeq(s, 7, 8)))
    THEN 0 - 1
    ELSE LET h   == Num(SubSeq(s, 1, 2))
             m   == Num(SubSeq(s, 4, 5))
             sec == Num(SubSeq(s, 7, 8))
         IN IF h > 23 \/ m > 59 \/ sec > 61 THEN 0 - 1 ELSE 3600 * h + 60 * m + sec

(* datetime.strptime(value, "%d.%m.%Y %H:%M:%S").                          *)
strptime_datetime(s) ==
    LET spaces == {i \in DOMAIN s : s[i] = " "}
    IN IF Cardinality(spaces) # 1 THEN NoDateTime
       ELSE LET i    == CHOOSE x \in spaces : TRUE
                date == strptime(SubSeq(s, 1, i - 1))
                secs == TimeOfDay(SubSeq(s, i + 1, Len(s)))
            IN IF date = NoDate \/ secs < 0 THEN NoDateTime
               ELSE [date |-> date, secs |-> secs]

(* _parse_date: fromisoformat, then DATE_FORMATS in order; NoDateTime      *)
(* where the code returns None.                                            *)
parse_date(value) ==
    LET s   == Chars(value)
        iso == fromisoformat(s)
        dt  == strptime_datetime(s)
        d   == strptime(s)
    IN IF iso # NoDateTime THEN iso
       ELSE IF dt # NoDateTime THEN dt
       ELSE IF d # NoDate THEN [date |-> d, secs |-> 0]
       ELSE NoDateTime

(* parsed < now on datetimes.                                              *)
Before(parsed, now) ==
    parsed.date < now.date \/ (parsed.date = now.date /\ parsed.secs < now.secs)

(* The deadlines of the rows of tasks JOIN task_groups with an active      *)
(* task, each kept with the id of its task.                                *)
ActiveDeadlines ==
    {<<t.id, g.deadline>> : <<t, g>> \in
        {p \in tasks \X task_groups :
            p[1].group_task_id = p[2].group_task_id /\ p[1].status = "active"}}

(* _count_overdue(deadlines) with datetime.now() = now.                    *)
count_overdue(deadlines, now) ==
    Cardinality({p \in deadlines :
                    LET parsed == parse_date(p[2])
                    IN parsed # NoDateTime /\ Before(parsed, now)})

get_stats(now) ==
    [total_tasks |-> Cardinality(tasks),
     active_tasks |-> Cardinality({t \in tasks : t.status = "active"}),
     completed_tasks |-> Cardinality({t \in tasks : t.status = "completed"}),
     overdue_tasks |-> count_overdue(ActiveDeadlines, now),
     users_count |-> Cardinality(users),
     groups_count |-> Cardinality(groups)]

(* The deadlines of the groups the statistics are taken of.                *)
StatsDeadlines == {"29.12.2026", "30.12.2026", "2026-12-30", "29.12.2026 23:59:59"}

(* The time of day of datetime.now(), in seconds.                          *)
NowSeconds == {0, 36000}

InitStats ==
    /\ InitTables
    /\ bot \in [pc : {"clock"}, today : Todays, secs : NowSeconds]

CreateDated ==
    \E task_text \in Texts, deadline \in StatsDeadlines, group_id \in ChatIds,
       assigned_to \in {<<"@a">>, <<"@a", "@b">>}, assigned_by \in Bosses,
       now \in Stamps :
        /\ Apply("create_task_group", [NoArgs EXCEPT !.n = Len(assigned_to)],
                 create_task_group(task_text, deadline, group_id, assigned_to,
                                   assigned_by, now), 0)

GetStats ==
    /\ last' = [op |-> "get_stats",
                ret |-> get_stats([date |-> bot.today, secs |-> bot.secs])]
    /\ UNCHANGED <<task_store, e2e, user_store, conns, bot_side>>

NextStats ==
    \/ CreateDated
    \/ UpdateTaskStatus
    \/ GetStats

SpecStats == InitStats /\ [][NextStats]_vars

----------------------------------------------------------------------------
(* The administrator's task list: admin_views of one administrator, the    *)
(* pages rendered from GET /api/tasks, the overdue view, and the deletion  *)
(* of a task from a page.                                                  *)

MaxPanelTasks == 6

PanelExecutors == [i \in 1..MaxPanelTasks |-> "@a"]

PanelDeadlines == {"29.12.2026", "31.12.2099"}

PanelFilters == {"all", "overdue"}

(* The dict of a task in the body of GET /api/tasks, as the bot reads it:  *)
(* task.get("status") and task.get("deadline", "").                        *)
TaskDict(task) ==
    [id |-> task.id, status |-> DataGet(task, "status", None),
     deadline |-> DataGet(task, "deadline", "")]

(* The list of the bot's get_all_tasks(); empty with an error on failure.  *)
FetchTasks(net) ==
    LET r == get_all_tasks
    IN IF net = "ok" /\ r.exc = "none"
       THEN [ok |-> TRUE, task_list |-> [i \in DOMAIN r.ret_tasks |-> TaskDict(r.ret_tasks[i])]]
       ELSE [ok |-> FALSE, task_list |-> <<>>]

Ids(task_list) == {task_list[i].id : i \in DOMAIN task_list}

NoView == [filter |-> "all", page |-> 0]

InitPanel ==
    /\ InitTables
    /\ bot \in [pc : {"panel"}, today : Todays, view : {NoView}, buttons : {{}}]

PanelCall(op, arg, net, shown, ids, filtered) ==
    [op |-> op, arg |-> arg, net |-> net, shown |-> shown, ids |-> ids,
     filtered |-> filtered]

(* render_tasks_page for the view: the call record and the navigation      *)
(* buttons of the message.                                                 *)
render_tasks_page(op, arg, view, task_list, today) ==
    LET filtered == SelectSeq(task_list,
                              LAMBDA t : task_matches_filter(t, view.filter, today))
        paged    == paginate_tasks(filtered, view.page)
    IN [call |-> PanelCall(op, arg, "ok",
                           IF paged.sliced = <<>> THEN "no tasks" ELSE "page",
                           Ids(paged.sliced), Ids(filtered)),
        buttons |-> IF paged.sliced = <<>> THEN {}
                    ELSE (IF paged.has_prev THEN {"prev"} ELSE {})
                            \cup (IF paged.has_next THEN {"next"} ELSE {})]

(* A handler that stores the view and then renders the fetched list, or    *)
(* shows the error of the fetch.                                           *)
PanelRender(op, arg, view, net) ==
    LET fetched  == FetchTasks(net)
        rendered == render_tasks_page(op, arg, view, fetched.task_list, bot.today)
    IN /\ view.page <= MaxPage
       /\ bot' = [bot EXCEPT !.view = view,
                             !.buttons = IF fetched.ok THEN @ \cup rendered.buttons ELSE @]
       /\ last' = IF fetched.ok THEN rendered.call
                  ELSE PanelCall(op, arg, net, "fetch failed", {}, {})
       /\ UNCHANGED <<task_store, e2e, user_store, conns, config_rows>>

PanelNets == {"ok", "down"}

(* The tasks the panel lists: one group of MaxPanelTasks tasks.            *)
CreateBatch ==
    /\ seq = 0
    /\ \E task_text \in Texts, deadline \in PanelDeadlines, now \in Stamps :
          /\ Store("create_task_group", [NoArgs EXCEPT !.n = Len(PanelExecutors)],
                   create_task_group(task_text, deadline, "", PanelExecutors,
                                     "@boss", now), 0)
          /\ UNCHANGED e2e

(* admin:all.                                                              *)
CbAdminAll ==
    /\ bot.pc = "panel"
    /\ \E net \in PanelNets :
        PanelRender("cb_admin_all", "all", IF net = "ok" THEN NoView ELSE bot.view, net)

(* filter:<key>.                                                           *)
CbFilter ==
    /\ bot.pc = "panel"
    /\ \E filter_key \in PanelFilters, net \in PanelNets :
        PanelRender("cb_filter", filter_key, [filter |-> filter_key, page |-> 0], net)

(* admin_page:next and admin_page:prev, pressed on a message that shows    *)
(* the button.                                                             *)
CbAdminPage ==
    \E direction \in bot.buttons, net \in PanelNets :
        LET page == IF direction = "next" THEN bot.view.page + 1
                    ELSE IF bot.view.page > 0 THEN bot.view.page - 1
                    ELSE bot.view.page
        IN PanelRender("cb_admin_page", direction, [bot.view EXCEPT !.page = page], net)

(* admin:overdue.                                                          *)
CbOverdue ==
    \E net \in PanelNets :
        LET fetched == FetchTasks(net)
            overdue == SelectSeq(fetched.task_list, LAMBDA t : is_overdue(t, bot.today))
        IN /\ last' = IF ~fetched.ok
                      THEN PanelCall("cb_overdue", "overdue", net, "fetch failed", {}, {})
                      ELSE PanelCall("cb_overdue", "overdue", net,
                                     IF overdue = <<>> THEN "no overdue tasks" ELSE "cards",
                                     Ids(overdue), Ids(overdue))
           /\ UNCHANGED <<task_store, e2e, user_store, conns, bot_side>>

(* admin_task:delete:<id> of a task of the page: the message is not        *)
(* rendered again.                                                         *)
CbAdminTaskDelete ==
    \E task_id \in TaskIdsOf(tasks), net \in PanelNets :
        LET r    == web_delete_task(task_id)
            http == HttpSeen(net, r)
            err  == delete_task_via_api(net, http)
        IN /\ BotStore(net, r)
           /\ last' = PanelCall("cb_admin_task_actions", task_id, net,
                                IF err # "none" THEN err ELSE "done", {}, {})

NextPanel ==
    \/ CreateBatch
    \/ CbAdminAll
    \/ CbFilter
    \/ CbAdminPage
    \/ CbOverdue
    \/ CbAdminTaskDelete

SpecPanel == InitPanel /\ [][NextPanel]_vars

----------------------------------------------------------------------------
(* Concurrent update_task_status and delete_task calls, each on its own    *)
(* connection, statement by statement.  update_task_status commits on its  *)
(* connection and reads the row again through get_task_by_id, which opens  *)
(* a second connection.                                                    *)

IdleStatus == [pc |-> "idle", op |-> None, task_id |-> 0, status |-> None,
               now |-> None, exc |-> "none"]

InitStatus ==
    /\ InitTables
    /\ bot = NoBot

StatusKeep == UNCHANGED <<e2e, user_store, bot_side>>

(* The rows the calls work on: one group with one or two tasks.            *)
StatusSeed ==
    /\ seq = 0
    /\ \E assigned_to \in {<<"@a">>, <<"@a", "@b">>}, now \in Stamps :
          Apply("create_task_group", [NoArgs EXCEPT !.n = Len(assigned_to)],
                create_task_group("Fix bug", "31.12.2099", "", assigned_to,
                                  "@boss", now), 0)

(* The end of a call of p: the connection is closed and the outcome is     *)
(* recorded.                                                               *)
StatusDone(p, exc, ret_tasks, ret_int) ==
    /\ conn' = [conn EXCEPT ![p] = [@ EXCEPT !.pc = "done", !.exc = exc]]
    /\ last' = Call(conn[p].op,
                    [NoArgs EXCEPT !.task_id = conn[p].task_id,
                                   !.status = conn[p].status],
                    Result(task_groups', tasks', seq', exc, ret_tasks, <<>>, ret_int), 0)

(* UPDATE tasks SET status = ?, completed_at = ? WHERE id = ?: takes the    *)
(* write lock; rowcount 0 raises ValueError and the call rolls back.       *)
StatusUpdate ==
    \E p \in Procs, task_id \in TaskIds, new_status \in StatusInputs, now \in Stamps :
        /\ seq > 0
        /\ conn[p] = Idle
        /\ wlock = None
        /\ IF {t \in tasks : t.id = task_id} = {}
           THEN /\ conn' = [conn EXCEPT ![p] = [IdleStatus EXCEPT
                                !.pc = "done", !.op = "update_task_status",
                                !.task_id = task_id, !.status = new_status,
                                !.exc = "ValueError"]]
                /\ UNCHANGED wlock
           ELSE /\ conn' = [conn EXCEPT ![p] = [IdleStatus EXCEPT
                                !.pc = "updated", !.op = "update_task_status",
                                !.task_id = task_id, !.status = new_status,
                                !.now = now]]
                /\ wlock' = p
        /\ UNCHANGED <<task_store, last>>
        /\ StatusKeep

(* conn.commit() of update_task_status.                                    *)
StatusCommit ==
    \E p \in Procs :
        /\ conn[p] # Idle
        /\ conn[p].pc = "updated"
        /\ tasks' = {IF t.id = conn[p].task_id
                     THEN SetStatus(t, conn[p].status, conn[p].now) ELSE t : t \in tasks}
        /\ conn' = [conn EXCEPT ![p].pc = "committed"]
        /\ wlock' = None
        /\ UNCHANGED <<task_groups, seq, allocated, last>>
        /\ StatusKeep

(* updated_task = self.get_task_by_id(task_id), on a second connection:    *)
(* the row as it is committed now; None raises ValueError.                 *)
StatusReread ==
    \E p \in Procs :
        /\ conn[p] # Idle
        /\ conn[p].pc = "committed"
        /\ UNCHANGED <<task_store, wlock>>
        /\ LET updated_task == get_task_by_id(tasks, conn[p].task_id)
           IN StatusDone(p,
                         IF updated_task.exc # "none" THEN updated_task.exc
                         ELSE IF updated_task.ret_tasks = <<>> THEN "ValueError"
                         ELSE "none",
                         updated_task.ret_tasks, 0 - 1)
        /\ StatusKeep

(* delete_task: SELECT group_task_id FROM tasks WHERE id = ?.              *)
StatusSelect ==
    \E p \in Procs, task_id \in TaskIds :
        /\ seq > 0
        /\ conn[p] = Idle
        /\ conn' = [conn EXCEPT ![p] = [IdleStatus EXCEPT
                        !.pc = IF {t \in tasks : t.id = task_id} = {}
                               THEN "done" ELSE "selected",
                        !.op = "delete_task", !.task_id = task_id,
                        !.exc = IF {t \in tasks : t.id = task_id} = {}
                                THEN "ValueError" ELSE "none"]]
        /\ UNCHANGED <<task_store, last, wlock>>
        /\ StatusKeep

(* delete_task: DELETE FROM tasks WHERE id = ?, conn.commit() and the      *)
(* count of the rows left in the group.                                    *)
StatusDelete ==
    \E p \in Procs :
        /\ conn[p] # Idle
        /\ conn[p].pc = "selected"
        /\ wlock = None
        /\ tasks' = {t \in tasks : t.id # conn[p].task_id}
        /\ UNCHANGED <<task_groups, seq, allocated, wlock>>
        /\ StatusDone(p, "none", <<>>, Cardinality(tasks'))
        /\ StatusKeep

(* A write while the other connection holds the write lock, once the busy  *)
(* timeout has run out: "database is locked".                              *)
StatusLocked ==
    \E p \in Procs :
        /\ conn[p] # Idle
        /\ conn[p].pc = "selected"
        /\ wlock \notin {None, p}
        /\ conn' = [conn EXCEPT ![p] = [@ EXCEPT !.pc = "done",
                                                 !.exc = "OperationalError"]]
        /\ UNCHANGED <<task_store, last, wlock>>
        /\ StatusKeep

(* The caller starts another call.                                         *)
StatusReturn ==
    \E p \in Procs :
        /\ conn[p] # Idle
        /\ conn[p].pc = "done"
        /\ conn' = [conn EXCEPT ![p] = Idle]
        /\ UNCHANGED <<task_store, last, wlock>>
        /\ StatusKeep

NextStatus ==
    \/ StatusSeed
    \/ StatusUpdate
    \/ StatusCommit
    \/ StatusReread
    \/ StatusSelect
    \/ StatusDelete
    \/ StatusLocked
    \/ StatusReturn

SpecStatus == InitStatus /\ [][NextStatus]_vars

----------------------------------------------------------------------------
(* Editing a task from the management menu, by two administrators: the     *)
(* side maps selected_task_for_text and selected_task_for_deadline, the    *)
(* FSM state of each user, and the free-text replies.  A reply handler     *)
(* is two steps, up to its await of update_group_via_api and the request   *)
(* itself, so that handlers of the other user run in between.              *)

EditUsers == {"u1", "u2"}                  \* from_user.id

EditTaskIds == {1, 2}

(* The tasks whose buttons a user presses.                                 *)
EditChoices(user) == IF user = "u1" THEN EditTaskIds ELSE {2}

(* The outcomes of the request of a reply: served, or no connection.       *)
EditNets == {"ok", "down"}

(* The texts of the replies with what text.strip() makes of them; None is  *)
(* a message without text.                                                 *)
StripTable ==
    { <<" New text ", "New text">>, <<"30.12.2026", "30.12.2026">> }

ReplyTexts(kind) ==
    IF kind = "task_text" THEN {" New text ", None} ELSE {"30.12.2026"}

strip(text) == (CHOOSE row \in StripTable : row[1] = text)[2]

(* Variant: the side maps have one entry for all users.                    *)
SideKeyShared(user) == CHOOSE u \in EditUsers : TRUE

(* The key of a user in the side maps: callback.from_user.id and           *)
(* message.from_user.id.                                                   *)
SideKey(user) == user

NoRequest == [kind |-> None, task_id |-> 0, text |-> None]

(* selected[kind] is the side map of the edit; picked[kind][u] is the task *)
(* u selected last for the edit and has not replied for yet.               *)
InitEdit ==
    /\ InitTables
    /\ bot = [pc |-> "edit",
              state |-> [u \in EditUsers |-> None],
              selected |-> [kind \in {"task_text", "deadline"} |->
                               [u \in EditUsers |-> 0]],
              picked |-> [kind \in {"task_text", "deadline"} |->
                             [u \in EditUsers |-> 0]],
              call |-> [u \in EditUsers |-> NoRequest]]

EditCall(op, user, kind, task_id, text, http, shown) ==
    [op |-> op, user |-> user, kind |-> kind, task_id |-> task_id, text |-> text,
     http |-> http, shown |-> shown]

EditKeep == UNCHANGED <<task_store, e2e, user_store, conns, config_rows>>

(* The groups whose tasks are edited: one group per task.                  *)
EditSeed ==
    /\ seq < Cardinality(EditTaskIds)
    /\ \E now \in Stamps :
          Store("create_task_group", [NoArgs EXCEPT !.n = 1],
                create_task_group("Fix bug", "31.12.2099", "", <<"@a">>, "@boss", now), 0)
    /\ UNCHANGED e2e

(* A handler that stores task_id in the side map of the edit and, with     *)
(* next_state, sets the state of the user.                                 *)
SelectForEdit(op, user, kind, task_id, next_state) ==
    /\ seq = Cardinality(EditTaskIds)
    /\ bot' = [bot EXCEPT !.selected[kind][SideKey(user)] = task_id,
                          !.picked[kind][user] = task_id,
                          !.state[user] = IF next_state = None THEN @ ELSE next_state]
    /\ last' = EditCall(op, user, kind, task_id, None, 0, "selected")
    /\ EditKeep

(* select:edit_text:<id> and select:deadline:<id>.                         *)
CbSelectTaskFor ==
    /\ bot.pc = "edit"
    /\ \E user \in EditUsers, kind \in {"task_text", "deadline"} :
        \E task_id \in EditChoices(user) :
          SelectForEdit("cb_select_task", user, kind, task_id,
                        IF kind = "task_text" THEN "waiting_text" ELSE None)

(* admin_task:deadline:<id>.                                               *)
CbAdminTaskDeadline ==
    /\ bot.pc = "edit"
    /\ \E user \in EditUsers : \E task_id \in EditChoices(user) :
          SelectForEdit("cb_admin_task_actions", user, "deadline", task_id, None)

(* deadline_update:<id>:custom.                                            *)
CbDeadlineUpdateCustom ==
    /\ bot.pc = "edit"
    /\ \E user \in EditUsers : \E task_id \in EditChoices(user) :
          SelectForEdit("cb_deadline_update", user, "deadline", task_id,
                        "waiting_deadline")

(* The reply handlers up to the request: pop the entry of the user, clear  *)
(* the state, stop without a task; message.text.strip() raises on a        *)
(* message without text.                                                   *)
ReplyBegin(op, user, kind, text) ==
    LET task_id == bot.selected[kind][SideKey(user)]
    IN /\ bot.call[user] = NoRequest
       /\ bot' = [bot EXCEPT !.selected[kind][SideKey(user)] = 0,
                             !.picked[kind][user] = 0,
                             !.state[user] = None,
                             !.call[user] = IF task_id = 0 \/ text = None THEN NoRequest
                                            ELSE [kind |-> kind, task_id |-> task_id,
                                                  text |-> strip(text)]]
       /\ last' = EditCall(op, user, kind, task_id, text, 0,
                           IF task_id = 0 THEN "no task selected"
                           ELSE IF text = None THEN "AttributeError" ELSE "request")
       /\ EditKeep

(* A message of a user in ManageDeadlineState.waiting_deadline.            *)
MsgDeadlineText ==
    \E user \in EditUsers, text \in ReplyTexts("deadline") :
        /\ bot.state[user] = "waiting_deadline"
        /\ ReplyBegin("msg_deadline_text", user, "deadline", text)

(* A message of a user in ManageTextState.waiting_text.                    *)
MsgNewTaskTextFrom ==
    \E user \in EditUsers, text \in ReplyTexts("task_text") :
        /\ bot.state[user] = "waiting_text"
        /\ ReplyBegin("msg_new_task_text", user, "task_text", text)

(* await update_group_via_api(task_id, ...) of a reply handler and the     *)
(* answer shown.                                                           *)
ReplyRequest ==
    \E user \in EditUsers, net \in EditNets, now \in Stamps :
        LET req     == bot.call[user]
            payload == [kind |-> "GroupOperationRequest", status |-> None,
                        group_operation |-> TRUE,
                        upd |-> IF req.kind = "task_text"
                                THEN [NoUpdate EXCEPT !.task_text = req.text]
                                ELSE [NoUpdate EXCEPT !.deadline = req.text]]
            r       == update_task(req.task_id, payload, now)
            http    == HttpSeen(net, r)
            err     == update_group_via_api(net, http)
        IN /\ req # NoRequest
           /\ task_groups' = (IF net = "ok" THEN r.groups ELSE task_groups)
           /\ tasks' = (IF net = "ok" THEN r.tasks ELSE tasks)
           /\ seq' = (IF net = "ok" THEN r.seq ELSE seq)
           /\ bot' = [bot EXCEPT !.call[user] = NoRequest]
           /\ last' = EditCall("update_group_via_api", user, req.kind, req.task_id,
                               req.text, http, IF err # "none" THEN err ELSE "updated")
           /\ UNCHANGED <<allocated, e2e, user_store, conns, config_rows>>

NextEdit ==
    \/ EditSeed
    \/ CbSelectTaskFor
    \/ CbAdminTaskDeadline
    \/ CbDeadlineUpdateCustom
    \/ MsgDeadlineText
    \/ MsgNewTaskTextFrom
    \/ ReplyRequest

SpecEdit == InitEdit /\ [][NextEdit]_vars

----------------------------------------------------------------------------
(* Properties.                                                             *)

NewTasks  == tasks' \ tasks
NewGroups == task_groups' \ task_groups
StoreUnchanged == tasks' = tasks /\ task_groups' = task_groups /\ seq' = seq

RowOf(T, task_id) == CHOOSE t \in T : t.id = task_id

(* C1: a successful create_task_group with N executors stores and returns  *)
(* exactly N new task rows, all with the same newly allocated              *)
(* group_task_id, status active and completed_at "", and stores exactly    *)
(* one new task_groups row; nothing else changes.                          *)
C1_CreateStoresNRows ==
    [][(last'.op = "create_task_group" /\ last'.exc = "none") =>
         /\ Cardinality(NewTasks) = last'.n
         /\ Len(last'.ret_tasks) = last'.n
         /\ Range(last'.ret_tasks) = NewTasks
         /\ Cardinality({last'.ret_tasks[i].id : i \in DOMAIN last'.ret_tasks}) = last'.n
         /\ tasks \subseteq tasks'
         /\ task_groups \subseteq task_groups'
         /\ Cardinality(NewGroups) = 1
         /\ \A g \in NewGroups :
              /\ g.group_task_id \notin GroupIds(task_groups)
              /\ \A t \in NewTasks :
                   /\ t.group_task_id = g.group_task_id
                   /\ t.status = "active"
                   /\ t.completed_at = ""]_vars

C1_Witness ==
    /\ last.op = "create_task_group"
    /\ last.exc = "none"
    /\ last.n = 2
    /\ Cardinality(task_groups) = 2

(* C2: on an existing task, update_task_status(id, "completed") leaves the *)
(* row completed with a non-empty completed_at, and                        *)
(* update_task_status(id, "active") leaves it active with completed_at "", *)
(* whatever the status was before.                                         *)
C2_StatusUpdateSetsStamp ==
    [][(last'.op = "update_task_status" /\ last'.task_id \in TaskIdsOf(tasks)) =>
         /\ last'.task_id \in TaskIdsOf(tasks')
         /\ LET t == RowOf(tasks', last'.task_id)
            IN /\ last'.status = "completed" =>
                    t.status = "completed" /\ t.completed_at # ""
               /\ last'.status = "active" =>
                    t.status = "active" /\ t.completed_at = ""]_vars

C2_Witness ==
    /\ last.op = "update_task_status"
    /\ last.status = "active"
    /\ last.exc = "none"
    /\ \E t \in tasks : t.id = last.task_id /\ t.status = "active"
    /\ \E t \in tasks : t.status = "completed"

(* C3: in every reachable state every task row has completed_at = "" if    *)
(* and only if its status is active.                                       *)
C3_CompletedAtIffActive ==
    \A t \in tasks : (t.completed_at = "") <=> (t.status = "active")

(* C4: every stored task row has status active or completed, and a direct  *)
(* update_task_status call carrying another value is rejected and leaves   *)
(* the stored rows unchanged.                                              *)
C4_StatusAlwaysValid ==
    [][/\ \A t \in tasks' : t.status \in ValidStatuses
       /\ (last'.op = "update_task_status" /\ last'.status \notin ValidStatuses) =>
            (last'.exc # "none" /\ StoreUnchanged)]_vars

(* C5: when delete_task removes the only remaining task row of a group it  *)
(* returns 0 and the group's task_groups row is still there, unchanged.    *)
C5_DeleteLastKeepsGroup ==
    [][(/\ last'.op = "delete_task"
        /\ last'.task_id \in TaskIdsOf(tasks)
        /\ CountInGroup(tasks, RowOf(tasks, last'.task_id).group_task_id) = 1) =>
         /\ last'.exc = "none"
         /\ last'.ret_int = 0
         /\ tasks' = tasks \ {RowOf(tasks, last'.task_id)}
         /\ \E g \in task_groups' :
              /\ g.group_task_id = RowOf(tasks, last'.task_id).group_task_id
              /\ g \in task_groups]_vars

C5_Witness ==
    /\ last.op = "delete_task"
    /\ last.exc = "none"
    /\ last.ret_int = 0
    /\ tasks # {}

(* C6 as stated: in the end-to-end scenario the create returns 2 tasks,    *)
(* get_all_tasks then shows one active and one completed task, and         *)
(* deleting the active one returns remaining_in_group = 0.                 *)
E2ECreated ==
    e2e.pc = "created" =>
        last.exc = "none" /\ Len(last.ret_tasks) = 2 /\ Cardinality(tasks) = 2

E2EListed ==
    e2e.pc = "listed" =>
        /\ last.exc = "none"
        /\ Len(last.ret_tasks) = 2
        /\ Cardinality({i \in DOMAIN last.ret_tasks :
                          last.ret_tasks[i].status = "active"}) = 1
        /\ Cardinality({i \in DOMAIN last.ret_tasks :
                          last.ret_tasks[i].status = "completed"}) = 1

C6_EndToEndAsStated ==
    /\ E2ECreated
    /\ E2EListed
    /\ e2e.pc = "deleted" => (last.exc = "none" /\ last.ret_int = 0)

(* C6 amended: the same scenario, but deleting the active task returns     *)
(* remaining_in_group = 1: the completed task is still a row of the group. *)
C6_EndToEnd ==
    /\ E2ECreated
    /\ E2EListed
    /\ e2e.pc = "deleted" =>
         /\ last.exc = "none"
         /\ last.ret_int = 1
         /\ \E t \in tasks : t.id = e2e.completed /\ t.status = "completed"

C6_Witness ==
    /\ e2e.pc = "deleted"
    /\ last.op = "delete_task"
    /\ last.exc = "none"
    /\ e2e.active \notin TaskIdsOf(tasks)

(* C7: add_executors_to_group on a group_task_id without a task_groups row *)
(* raises ValueError, which POST /api/tasks answers with 404, and the      *)
(* tables are the same before and after the call.                          *)
C7_AddToMissingGroup ==
    [][/\ (/\ last'.op = "add_executors_to_group"
           /\ last'.group_task_id \notin GroupIds(task_groups)) =>
             (last'.exc = "ValueError" /\ StoreUnchanged)
       /\ (/\ last'.op = "POST /api/tasks"
           /\ last'.status = "TaskAddExecutors"
           /\ last'.group_task_id \notin GroupIds(task_groups)) =>
             (last'.exc = "ValueError" /\ last'.http = 404 /\ StoreUnchanged)]_vars

C7_Witness ==
    /\ last.op = "POST /api/tasks"
    /\ last.status = "TaskAddExecutors"
    /\ last.http = 404
    /\ last.n = 2
    /\ last.group_task_id \notin GroupIds(task_groups)
    /\ tasks # {}

(* C8: in every reachable state every task row belongs to exactly one      *)
(* group: exactly one task_groups row has its group_task_id.               *)
C8_TaskInExactlyOneGroup ==
    \A t \in tasks :
        Cardinality({g \in task_groups : g.group_task_id = t.group_task_id}) = 1

C8_Witness ==
    /\ \E t1, t2 \in tasks : t1.group_task_id # t2.group_task_id
    /\ last.op = "add_executors_to_group"
    /\ last.exc = "none"
    /\ last.n = 1

(* C9: no step removes a group_task_id from task_groups, however many task *)
(* rows are deleted; a group may remain with no task row at all.           *)
C9_GroupsOnlyGrow ==
    [][GroupIds(task_groups) \subseteq GroupIds(task_groups')]_vars

C9_Witness ==
    /\ Cardinality(task_groups) = 2
    /\ tasks = {}
    /\ seq = 2

(* C10: create_task_group always succeeds and gives the new group the id   *)
(* max(existing ids, 0) + 1, which no task_groups row ever had; no two     *)
(* task_groups rows share a group_task_id.                                 *)
C10_GroupIdMaxPlusOne ==
    [][/\ \A g1, g2 \in task_groups' :
            g1.group_task_id = g2.group_task_id => g1 = g2
       /\ last'.op = "create_task_group" =>
            /\ last'.exc = "none"
            /\ GroupIds(NewGroups) =
                 {(IF task_groups = {} THEN 0 ELSE MaxOf(GroupIds(task_groups))) + 1}
            /\ GroupIds(NewGroups) \cap allocated = {}]_vars

C10_Witness ==
    /\ last.op = "create_task_group"
    /\ last.exc = "none"
    /\ GroupIds(task_groups) = {1, 2}
    /\ \A t \in tasks : t.group_task_id = 1

GroupRow(G, group_task_id) == CHOOSE g \in G : g.group_task_id = group_task_id

OtherGroups(G, group_task_id) == {g \in G : g.group_task_id # group_task_id}

(* C13: update_group on an existing group sets exactly the supplied fields *)
(* to the supplied values, keeps the unsupplied fields and created_at,     *)
(* keeps every other task_groups row and every task row, and returns the   *)
(* group row as stored after the update.                                   *)
C13_UpdateGroupFrame ==
    [][(last'.op = "update_group" /\ last'.group_task_id \in GroupIds(task_groups))
       => LET gid == last'.group_task_id
              g   == GroupRow(task_groups, gid)
              g2  == GroupRow(task_groups', gid)
          IN /\ last'.exc = "none"
             /\ Cardinality({x \in task_groups' : x.group_task_id = gid}) = 1
             /\ \A f \in {"task_text", "deadline", "group_id"} :
                    g2[f] = IF last'.upd[f] # None THEN last'.upd[f] ELSE g[f]
             /\ g2.created_at = g.created_at
             /\ OtherGroups(task_groups', gid) = OtherGroups(task_groups, gid)
             /\ tasks' = tasks /\ seq' = seq
             /\ last'.ret_group = <<g2>>]_vars

(* A group with task rows, next to another group, after an update of its   *)
(* text and chat that kept its deadline.                                   *)
C13_Witness ==
    /\ last.op = "update_group" /\ last.exc = "none"
    /\ Supplied(last.upd) = {"task_text", "group_id"}
    /\ last.ret_group[1].task_text = "Write docs"
    /\ last.ret_group[1].deadline = "31.12.2099"
    /\ Cardinality(task_groups) = 2
    /\ \E t \in tasks : t.group_task_id = last.group_task_id

(* C14: update_group on a group_task_id without a row raises the not-found *)
(* error and leaves the store as it was, with and without supplied fields. *)
C14_UpdateMissingGroup ==
    [][(last'.op = "update_group" /\ last'.group_task_id \notin GroupIds(task_groups))
       => (last'.exc = "ValueError" /\ StoreUnchanged)]_vars

(* The call without any field, on a store that has another group.          *)
C14_Witness ==
    /\ last.op = "update_group" /\ last.exc = "ValueError"
    /\ last.upd = NoUpdate
    /\ task_groups # {} /\ tasks # {}
    /\ last.group_task_id \notin GroupIds(task_groups)

(* C15: update_task_status and delete_task on a task id without a row      *)
(* raise the not-found error, PUT and DELETE /api/tasks/{id} answer it     *)
(* with 404, and tasks and task_groups are as before the call.             *)
C15_MissingTaskNotFound ==
    [][(last'.task_id \notin TaskIdsOf(tasks))
       => /\ (last'.op \in {"update_task_status", "delete_task"}
                => (last'.exc = "ValueError" /\ StoreUnchanged))
          /\ ((\/ (last'.op = "PUT /api/tasks/{id}" /\ last'.kind = "TaskStatusUpdate")
               \/ last'.op = "DELETE /api/tasks/{id}")
                => (last'.exc = "ValueError" /\ last'.http = 404 /\ StoreUnchanged))]_vars

(* DELETE of an id that was deleted before, answered 404 on a store that   *)
(* still has a row.                                                        *)
C15_Witness ==
    /\ last.op = "DELETE /api/tasks/{id}" /\ last.http = 404
    /\ last.task_id <= seq
    /\ tasks # {}

(* C16: delete_task on an existing task removes that row only, keeps every *)
(* other task row and every task_groups row, and returns the number of     *)
(* rows left with the deleted row's group_task_id, one less than before.   *)
C16_DeleteTaskFrame ==
    [][(last'.op = "delete_task" /\ last'.task_id \in TaskIdsOf(tasks))
       => LET row == RowOf(tasks, last'.task_id)
              InGroup(T) == {t \in T : t.group_task_id = row.group_task_id}
          IN /\ last'.exc = "none"
             /\ tasks' = tasks \ {row}
             /\ Cardinality(tasks') = Cardinality(tasks) - 1
             /\ task_groups' = task_groups
             /\ last'.ret_int = Cardinality(InGroup(tasks'))
             /\ last'.ret_int = Cardinality(InGroup(tasks)) - 1]_vars

(* A delete that left a row of another group behind.                       *)
C16_Witness ==
    /\ last.op = "delete_task" /\ last.exc = "none"
    /\ last.ret_int = 0
    /\ tasks # {}
    /\ Cardinality(task_groups) = 2

(* C17: a PUT /api/tasks/{id} with an accepted body either updates the     *)
(* status of the task and nothing else, or updates the group of the task   *)
(* and no task row, or answers 404 and changes nothing; it ends in no      *)
(* other way.                                                              *)
C17_PutThreeOutcomes ==
    [][(last'.op = "PUT /api/tasks/{id}")
       => \/ /\ last'.http = 200
             /\ last'.kind = "TaskStatusUpdate"
             /\ task_groups' = task_groups
             /\ TaskIdsOf(tasks') = TaskIdsOf(tasks)
             /\ RowOf(tasks', last'.task_id).status = last'.status
             /\ \A t \in tasks : t.id # last'.task_id => t \in tasks'
          \/ /\ last'.http = 200
             /\ last'.kind = "GroupOperationRequest(true)"
             /\ tasks' = tasks
             /\ last'.ret_int = RowOf(tasks, last'.task_id).group_task_id
             /\ OtherGroups(task_groups', last'.ret_int)
                    = OtherGroups(task_groups, last'.ret_int)
          \/ /\ last'.http = 404
             /\ StoreUnchanged]_vars

(* C18: a successful POST /api/tasks answers with the group_task_id of the *)
(* group it created or extended, and every returned task carries that id,  *)
(* whatever the length of assigned_to.                                     *)
C18_PostReturnsGroupId ==
    [][(last'.op = "POST /api/tasks" /\ last'.http = 200)
       => /\ IF last'.status = "TaskCreate"
             THEN GroupIds(NewGroups) = {last'.ret_int}
             ELSE last'.ret_int = last'.group_task_id
                  /\ last'.ret_int \in GroupIds(task_groups)
          /\ Len(last'.ret_tasks) = last'.n
          /\ \A i \in DOMAIN last'.ret_tasks :
                 last'.ret_tasks[i].group_task_id = last'.ret_int]_vars

UserOf(objects, username) == {u \in objects : u.username = username}

(* C19: DELETE /api/users/{username} of an existing user succeeds, the     *)
(* user is then absent from get_all_users and from user_groups; of a       *)
(* username without a row it answers 404.                                  *)
C19_DeleteUserCascades ==
    [][(last'.op = "DELETE /api/users/{username}")
       => IF last'.username \in UsernamesOf(users)
          THEN /\ last'.http = 200
               /\ UserOf(UserObjects(users', user_groups'), last'.username) = {}
               /\ \A ug \in user_groups' : ug.username # last'.username
          ELSE last'.http = 404]_vars

(* C20: upsert_user(u, n, G) succeeds for every u, n and list G; afterwards *)
(* get_all_users has exactly one entry for u, with full_name n and the     *)
(* groups of G, and the entries of the other users are as before.          *)
C20_UpsertUserSetsMembership ==
    [][(last'.op = "POST /api/users")
       => LET before == UserObjects(users, user_groups)
              after  == UserObjects(users', user_groups')
              u      == last'.username
          IN /\ last'.exc = "none"
             /\ UserOf(after, u) = {[username |-> u, full_name |-> last'.full_name,
                                     groups |-> Range(last'.groups)]}
             /\ after \ UserOf(after, u) = before \ UserOf(before, u)
             /\ {ug \in user_groups' : ug.username # u}
                    = {ug \in user_groups : ug.username # u}]_vars

Committed(p) == conn[p].pc = "done" /\ conn[p].exc = "none"

BothDone == \A p \in Procs : conn[p].pc = "done"

SameMax == \A p, q \in Procs : conn[p].group_task_id = conn[q].group_task_id

(* C11 as stated: when the two calls have read the same MAX(group_task_id)  *)
(* and no storage failure or lock timeout stopped either, both creation    *)
(* events are committed under that one group_task_id.                      *)
C11_DuplicateIdsCommitted ==
    (BothDone /\ SameMax /\ \A p \in Procs : conn[p].exc # "OperationalError")
        => \A p \in Procs : Committed(p)

(* C11, amended: no two creation events are ever committed under the same  *)
(* group_task_id; of two calls that read the same MAX at most one commits, *)
(* and the other one fails.                                                *)
C11_NoDuplicateGroupIds ==
    /\ \A g1, g2 \in task_groups :
           g1.group_task_id = g2.group_task_id => g1 = g2
    /\ \A p, q \in Procs :
           (p # q /\ Committed(p) /\ Committed(q))
               => conn[p].group_task_id # conn[q].group_task_id
    /\ \A t1, t2 \in tasks :
           t1.group_task_id = t2.group_task_id => t1.assigned_by = t2.assigned_by
    /\ (BothDone /\ SameMax)
           => \E p \in Procs : conn[p].exc \in {"IntegrityError", "OperationalError"}

(* Both calls read the same MAX; one committed its group and two tasks,    *)
(* the other failed on the key.                                            *)
C11_Witness ==
    /\ BothDone /\ SameMax
    /\ \E p, q \in Procs :
           /\ Committed(p) /\ Len(conn[p].assigned_to) = 2
           /\ conn[q].exc = "IntegrityError" /\ Len(conn[q].assigned_to) = 1
    /\ Cardinality(task_groups) = 1
    /\ Cardinality(tasks) = 2

RowsOf(p) ==
    [groups |-> {g \in task_groups : g.task_text = RaceText(p)},
     tasks  |-> {t \in tasks : t.assigned_by = RaceBoss(p)}]

(* C12: the committed tables, and so every reader, hold of a               *)
(* create_task_group call either its group row with all its task rows,     *)
(* once it has committed, or no row at all, also after a failed insert.    *)
C12_CreateAllOrNothing ==
    /\ \A p \in Procs :
           IF Committed(p)
           THEN /\ RowsOf(p).groups = {PendingGroup(p)}
                /\ Cardinality(RowsOf(p).tasks) = Len(conn[p].assigned_to)
                /\ \A t \in RowsOf(p).tasks : t.group_task_id = conn[p].group_task_id
           ELSE RowsOf(p).groups = {} /\ RowsOf(p).tasks = {}
    /\ last.op \in {"get_all_tasks", "get_tasks_by_group"}
           => \A p \in Procs :
                 Cardinality({i \in DOMAIN last.ret_tasks :
                                 last.ret_tasks[i].assigned_by = RaceBoss(p)})
                     \in {0, Len(conn[p].assigned_to)}

(* One call failed after its group row and one of its two task rows were   *)
(* inserted; the other committed a group with two tasks, which a reader    *)
(* got.                                                                    *)
C12_Witness ==
    /\ \E p, q \in Procs :
           /\ conn[p].pc = "done" /\ conn[p].exc = "OperationalError"
           /\ conn[p].inserted = 1 /\ Len(conn[p].assigned_to) = 2
           /\ Committed(q) /\ Len(conn[q].assigned_to) = 2
    /\ last.op = "get_all_tasks" /\ Len(last.ret_tasks) = 2

(* C21: a re-read of the config from the API keeps every administrator     *)
(* the bot had, so a handle added by the add-admin flow stays an           *)
(* administrator.                                                          *)
C21_AdminsSurviveFetch ==
    [][(last'.op = "fetch_config_from_api")
       => /\ bot.config.admins \subseteq bot'.config.admins
          /\ \A h \in RawHandles :
                user_is_admin(bot.config, h) => user_is_admin(bot'.config, h)]_vars

(* C22: set_config stores each toggle as the text "true" or "false", and   *)
(* get_config on the rows it stored gives back the same Config.            *)
C22_ConfigRoundTrip ==
    [][(last'.op = "set_config")
       => /\ \A key \in ConfigToggles :
                config_rows'[key] = IF last'.cfg[key] THEN "true" ELSE "false"
          /\ get_config(config_rows') = last'.cfg
          /\ last'.ret = last'.cfg
          /\ \A key \in DOMAIN config_rows \ ConfigToggles :
                config_rows'[key] = config_rows[key]]_vars

(* A stored configuration with toggles of both values.                     *)
C22_Witness ==
    /\ last.op = "set_config"
    /\ last.cfg["task_created"] /\ ~last.cfg["task_deleted"]
    /\ config_rows["task_created"] = "true"
    /\ config_rows["task_deleted"] = "false"

BotTaskOps == {"cmd_done", "cb_task_actions", "cb_deadline_update"}

(* C23: a status change or deletion requested through /done or a task:*    *)
(* button is sent to the API only for a task assigned to the requester's   *)
(* normalized handle.                                                      *)
C23_OnlyOwnTasks ==
    [][(/\ last'.op \in {"cmd_done", "cb_task_actions"}
        /\ last'.requests > 0
        /\ last'.task_id \in TaskIdsOf(tasks))
       => HandleChars(RowOf(tasks, last'.task_id).assigned_to)
             = normalize_handle(last'.username)]_vars

(* C26: when the API answers 404 to a status update, group update or task  *)
(* deletion, the message shown is the helper's not-found message; after    *)
(* every other failure it is the helper's generic message.                 *)
C26_NotFoundMessage ==
    [][(last'.op \in BotTaskOps)
       => /\ last'.http = 404
                => last'.shown = IF last'.op = "cb_deadline_update"
                                 THEN "group not found" ELSE "task not found"
          /\ (last'.net = "down" \/ last'.http = 500)
                => last'.shown \in {"status update failed", "group update failed",
                                    "delete failed"}]_vars

(* C27: every handler sends at most one request, and whenever that request *)
(* fails (no answer, or an answer that is not 2xx) the user is shown an     *)
(* error message; this includes the saving of the config.                  *)
C27_FailureShown ==
    [][/\ (last'.op \in BotTaskOps)
          => /\ last'.requests <= 1
             /\ (last'.net # "ok" \/ last'.http >= 400) => last'.shown \in ErrorMessages
       /\ (last'.op = "cb_notify_toggle" /\ ~last'.up)
          => last'.shown \in ErrorMessages]_vars

(* The deadline strings of the model that are no date written DD.MM.YYYY.  *)
Unparsable ==
    {"", "2026-12-30", "31.02.2027", "29.02.2027", "00.01.2027", "30.12.26", "soon",
     "30.12.2026."}

DateKeys == {"today", "tomorrow", "week", "month"}

(* The deadline string of the day `days` after today.                      *)
DayText(days) == TextOf(strftime(bot.today + days))

(* C28: is_overdue(task) is true exactly when the status is not completed  *)
(* and the deadline parses to a date strictly before today; it is false    *)
(* for a deadline of today, for every completed task and for every         *)
(* deadline that does not parse.                                           *)
C28_OverdueIff ==
    [][(last'.op = "is_overdue")
       => LET d == deadline_to_date(bot.deadline)
          IN /\ last'.result
                  <=> (bot.status # "completed" /\ d # NoDate /\ d < bot.today)
             /\ bot.status = "completed" => ~last'.result
             /\ bot.deadline \in Unparsable => ~last'.result
             /\ bot.deadline = DayText(0) => ~last'.result
             /\ (bot.deadline = DayText(0 - 1) /\ bot.status = "active")
                  => last'.result]_vars

C28_Witness ==
    /\ last.op = "is_overdue"
    /\ last.result
    /\ bot.status = "active"
    /\ bot.deadline = DayText(0 - 1)

(* The named filters as the specification defines them.                    *)
NamedFilter(filter_key) ==
    LET d == deadline_to_date(bot.deadline)
    IN CASE filter_key = "all" -> TRUE
         [] filter_key = "active" -> bot.status = "active"
         [] filter_key = "completed" -> bot.status = "completed"
         [] filter_key = "overdue" -> is_overdue(ViewTask, bot.today)
         [] filter_key = "today" -> d # NoDate /\ d = bot.today
         [] filter_key = "tomorrow" -> d # NoDate /\ d = bot.today + 1
         [] filter_key = "week" -> d # NoDate /\ bot.today <= d /\ d <= bot.today + 7
         [] filter_key = "month" -> d # NoDate /\ bot.today <= d /\ d <= bot.today + 30

(* C29: task_matches_filter agrees with the named filters for every task,  *)
(* key and date; the week ends 7 days and the month 30 days after today,   *)
(* both start today, and a deadline that does not parse is in none of      *)
(* today, tomorrow, week and month.                                        *)
C29_FilterAgrees ==
    [][(last'.op = "task_matches_filter")
       => LET key == last'.filter_key
          IN /\ last'.result <=> NamedFilter(key)
             /\ (key \in DateKeys /\ bot.deadline \in Unparsable) => ~last'.result
             /\ (key \in {"week", "month"} /\ bot.deadline = DayText(0 - 1))
                  => ~last'.result
             /\ (key = "today" /\ bot.deadline = DayText(0)) => last'.result
             /\ (key = "tomorrow" /\ bot.deadline = DayText(1)) => last'.result
             /\ (key = "week" /\ bot.deadline = DayText(7)) => last'.result
             /\ (key = "week" /\ bot.deadline = DayText(8)) => ~last'.result
             /\ (key = "month" /\ bot.deadline = DayText(30)) => last'.result
             /\ (key = "month" /\ bot.deadline = DayText(31)) => ~last'.result]_vars

C29_Witness ==
    /\ last.op = "task_matches_filter"
    /\ last.filter_key = "week"
    /\ bot.deadline = DayText(7)
    /\ last.result

(* The pages 0, 1, 2, ... of a list, followed while has_next holds.        *)
RECURSIVE FollowPages(_, _)
FollowPages(task_list, page) ==
    LET p == paginate_tasks(task_list, page)
    IN p.sliced \o (IF p.has_next THEN FollowPages(task_list, page + 1) ELSE <<>>)

(* C30: paginate_tasks(tasks, page) returns the slice                      *)
(* tasks[5*page : 5*page+5], at most 5 items, has_prev iff page > 0 and    *)
(* has_next iff 5*page+5 < len(tasks); the pages in order reproduce the    *)
(* list, no task lost or repeated.                                         *)
C30_PagesPartition ==
    [][(last'.op = "paginate_tasks")
       => LET p     == last'.paged
              page  == last'.page
              first == 5 * page + 1
              end   == IF 5 * page + 5 < bot.n THEN 5 * page + 5 ELSE bot.n
          IN /\ Len(p.sliced) <= 5
             /\ p.sliced = [i \in 1..(IF end < first THEN 0 ELSE end - first + 1)
                              |-> ViewList[first + i - 1]]
             /\ p.has_prev <=> page > 0
             /\ p.has_next <=> 5 * page + 5 < bot.n
             /\ FollowPages(ViewList, 0) = ViewList]_vars

C30_Witness ==
    /\ last.op = "paginate_tasks"
    /\ bot.n = 10
    /\ last.page = 1
    /\ Len(last.paged.sliced) = 5
    /\ ~last.paged.has_next

CreationStates == {"choosing_executors", "task_text", "group", "deadline", "custom_deadline"}

CreateOps == {"cb_deadline_choice", "admin_custom_deadline"}

CancelPressed == last'.op = "cb_exec_selection" /\ last'.action = "cancel"

(* C24: a create request is sent only at the end of a flow that passed     *)
(* through the executor selection, the text, the group and the deadline,   *)
(* and never with an empty executor list or without a task text.           *)
C24_CreateOnlyAfterFlow ==
    [][(last'.op \in CreateOps /\ last'.requests > 0)
       => /\ bot.state \in {"deadline", "custom_deadline"}
          /\ {"assignees", "task_text", "group_id"} \subseteq DOMAIN bot.data
          /\ last'.assigned_to # <<>>
          /\ last'.task_text \notin {"", None}]_vars

(* C25 as stated: the state of a started flow is cleared only because a    *)
(* task group was created or exec:cancel was pressed; no form data is kept *)
(* afterwards and exec:cancel sends no create request.                     *)
C25_ClearedOnlyByCreatedOrCancel ==
    [][/\ (bot.state \in CreationStates /\ bot'.state = None)
          => \/ CancelPressed
             \/ /\ last'.op \in CreateOps
                /\ last'.net = "ok" /\ last'.http = 200
                /\ Cardinality(task_groups') = Cardinality(task_groups) + 1
       /\ (bot.state # None /\ bot'.state = None) => DOMAIN bot'.data = {}
       /\ CancelPressed => last'.requests = 0 /\ StoreUnchanged]_vars

(* C25 amended: the state of a started flow is cleared only by exec:cancel *)
(* or by finalize_task_creation, which sends one create request whether or *)
(* not a group is then created; no form data is kept afterwards and        *)
(* exec:cancel sends no create request.                                    *)
C25_ClearedByFinalizeOrCancel ==
    [][/\ (bot.state \in CreationStates /\ bot'.state = None)
          => \/ CancelPressed
             \/ last'.op \in CreateOps /\ last'.requests = 1
       /\ (bot.state # None /\ bot'.state = None) => DOMAIN bot'.data = {}
       /\ CancelPressed => last'.requests = 0 /\ StoreUnchanged]_vars

C25_Witness ==
    /\ last.op = "cb_deadline_choice"
    /\ last.requests = 1
    /\ last.net = "down"
    /\ last.assigned_to # <<>>
    /\ last.task_text = "Fix bug"
    /\ bot.state = None
    /\ DOMAIN bot.data = {}
    /\ task_groups = {}

ExecDonePressed == last'.op = "cb_exec_selection" /\ last'.action = "done"

(* C32: exec:done with an empty selection leaves the FSM state and the     *)
(* form data as they are; the state becomes AdminCreateTask.task_text only *)
(* by exec:done with at least one executor selected.                       *)
C32_ExecDoneNeedsExecutor ==
    [][/\ (ExecDonePressed /\ DataGet(bot.data, "assignees", <<>>) = <<>>)
          => bot' = bot
       /\ (ExecDonePressed /\ DataGet(bot.data, "assignees", <<>>) # <<>>)
          => bot'.state = "task_text" /\ bot'.data = bot.data
       /\ (bot'.state = "task_text" /\ bot.state # "task_text")
          => ExecDonePressed /\ DataGet(bot.data, "assignees", <<>>) # <<>>]_vars

C32_Witness ==
    /\ last.op = "cb_exec_selection"
    /\ last.action = "done"
    /\ last.shown = "choose at least one"
    /\ bot.state = "choosing_executors"
    /\ DataGet(bot.data, "assignees", <<>>) = <<>>

(* C33: a group:view:<id> button is handled by cb_view_group, which leaves *)
(* the FSM state and the form data unchanged and never sets                *)
(* AdminCreateTask.deadline.                                               *)
C33_ViewGroupKeepsState ==
    [][(last'.op \in {"cb_choose_group", "cb_view_group"} /\ last'.action = "view")
       => /\ last'.op = "cb_view_group"
          /\ bot'.state = bot.state
          /\ bot'.data = bot.data]_vars

(* C34: the press of admins:remove:<handle> runs cb_remove_admin: the      *)
(* handle leaves the admins of the bot's config and one config save is     *)
(* sent; the press of users:remove:<username> runs cb_remove_user and      *)
(* sends a delete request for the user.                                    *)
C34_RemoveButtonsRemove ==
    [][/\ (last'.op \in {"cb_admins_actions", "cb_remove_admin"}
              /\ Len(last'.parts) = 3)
          => /\ last'.op = "cb_remove_admin"
             /\ last'.parts[3] \notin bot'.config.admins
             /\ last'.saves = 1
       /\ (last'.op \in {"cb_users_actions", "cb_remove_user"}
              /\ Len(last'.parts) = 3)
          => /\ last'.op = "cb_remove_user"
             /\ last'.deletes = 1]_vars

(* The tasks the bot's predicate calls overdue: active, and the deadline   *)
(* of the group a date before today.                                       *)
BotOverdue(today) ==
    {t \in tasks :
        /\ t.status = "active"
        /\ \E g \in task_groups :
              /\ g.group_task_id = t.group_task_id
              /\ is_overdue([status |-> t.status, deadline |-> g.deadline], today)}

(* C38: overdue_tasks of get_stats is the number of active tasks whose     *)
(* group deadline is overdue by the bot's predicate; an active task with   *)
(* the deadline of today is counted by neither.                            *)
C38_StatsOverdueAgrees ==
    [][(last'.op = "get_stats")
       => last'.ret.overdue_tasks = Cardinality(BotOverdue(bot.today))]_vars

(* The stored tasks that are active with a group deadline, written         *)
(* DD.MM.YYYY, strictly before today.                                      *)
StoredOverdue(today) ==
    {t \in tasks :
        /\ t.status = "active"
        /\ \E g \in task_groups :
              /\ g.group_task_id = t.group_task_id
              /\ deadline_to_date(g.deadline) # NoDate
              /\ deadline_to_date(g.deadline) < today}

(* C31: the overdue view of the bot (admin:overdue, and the filter         *)
(* overdue of the task list), applied to the list of GET /api/tasks,       *)
(* includes every stored task that is active with a group deadline before  *)
(* today.                                                                  *)
C31_OverdueViewComplete ==
    [][(/\ last'.op \in {"cb_overdue", "cb_filter"}
        /\ last'.arg = "overdue"
        /\ last'.net = "ok")
       => TaskIdsOf(StoredOverdue(bot.today)) \subseteq last'.filtered]_vars

(* C35: the stored page index is never negative and never beyond the last  *)
(* page of the filtered list, so a rendering of a non-empty filtered list   *)
(* is never "no tasks".                                                    *)
C35_PageWithinList ==
    [][(last'.op \in {"cb_admin_all", "cb_filter", "cb_admin_page"} /\ last'.net = "ok")
       => /\ bot'.view.page >= 0
          /\ last'.filtered # {}
                => /\ TASKS_PER_PAGE * bot'.view.page < Cardinality(last'.filtered)
                   /\ last'.shown # "no tasks"]_vars

(* C37: the task returned by a successful update_task_status(task_id, s)   *)
(* has status s, also when other update_task_status or delete_task calls   *)
(* for the same task run concurrently.                                     *)
C37_ReturnedStatusIsRequested ==
    [][(last'.op = "update_task_status" /\ last'.exc = "none" /\ last' # last)
       => \A i \in DOMAIN last'.ret_tasks :
             /\ last'.ret_tasks[i].id = last'.task_id
             /\ last'.ret_tasks[i].status = last'.status]_vars

GroupOfTask(task_id) == (CHOOSE t \in tasks : t.id = task_id).group_task_id

(* C36: a free-text reply of user U in waiting_text (resp.                 *)
(* waiting_deadline) is sent for exactly the task U selected last for the  *)
(* edit, removes U's entry from the side map and clears U's state before   *)
(* the request and whatever its outcome; the request changes the group of  *)
(* that task only; no handler of U changes the state or a side-map entry   *)
(* of another user.                                                        *)
C36_ReplyAppliesOwnSelection ==
    [][/\ (last'.op \in {"msg_new_task_text", "msg_deadline_text"})
          => LET u == last'.user
             IN /\ bot.state[u] = (IF last'.kind = "task_text" THEN "waiting_text"
                                   ELSE "waiting_deadline")
                /\ last'.task_id = bot.picked[last'.kind][u]
                /\ last'.task_id # 0
                /\ bot'.selected[last'.kind][u] = 0
                /\ bot'.state[u] = None
                /\ last'.text # None
                      => bot'.call[u] = [kind |-> last'.kind, task_id |-> last'.task_id,
                                         text |-> strip(last'.text)]
                /\ last'.text = None => bot'.call[u] = NoRequest
                /\ StoreUnchanged
       /\ (last'.op = "update_group_via_api")
          => LET u == last'.user
                 g == GroupOfTask(last'.task_id)
             IN /\ bot.call[u] = [kind |-> last'.kind, task_id |-> last'.task_id,
                                  text |-> last'.text]
                /\ bot'.state = bot.state /\ bot'.selected = bot.selected
                /\ tasks' = tasks
                /\ \A row \in task_groups : row.group_task_id # g => row \in task_groups'
                /\ last'.http = 200
                      => \E row \in task_groups' :
                            /\ row.group_task_id = g
                            /\ row[last'.kind] = last'.text
                /\ last'.http # 200 => task_groups' = task_groups
       /\ (last'.op \in {"cb_select_task", "cb_admin_task_actions", "cb_deadline_update",
                         "msg_new_task_text", "msg_deadline_text", "update_group_via_api"})
          => \A v \in EditUsers \ {last'.user} :
                /\ bot'.state[v] = bot.state[v]
                /\ bot'.selected["task_text"][v] = bot.selected["task_text"][v]
                /\ bot'.selected["deadline"][v] = bot.selected["deadline"][v]
                /\ bot'.call[v] = bot.call[v]]_vars

(* A reply of one user has been applied while another user has a different *)
(* task selected for the same edit and a request of their own pending.     *)
C36_Witness ==
    /\ last.op = "update_group_via_api"
    /\ last.http = 200
    /\ \E v \in EditUsers \ {last.user} :
          /\ bot.selected[last.kind][v] \notin {0, last.task_id}
          /\ bot.call[v] # NoRequest

====
